---------------------------- MODULE Spec2Model ----------------------------
(***************************************************************************)
(* A model of the messaging and host-call core of qiwis (src/qiwis.py):    *)
(* the registry of apps, the channel bus, the host-call gateway            *)
(* (Qiwis._qiwiscall / _handleQiwiscall) and the per-app QiwiscallProxy,   *)
(* all driven by the Qt event loop.                                        *)
(*                                                                         *)
(* Python values are tagged tuples, the tag first:                         *)
(*   <<"none">>  <<"bool", b>>  <<"int", i>>  <<"str", text>>              *)
(*   <<"tuple", seq>>  <<"list", seq>>  <<"set", S>>  <<"dict", pairs>>    *)
(*   <<"obj", cls, pairs>> (a dataclass instance)  <<"func">> (a callable) *)
(* where pairs is a sequence of <<key, value>> in insertion order.         *)
(* The content of a Python str ("text") is either <<"txt", s>>, a text     *)
(* that is not a JSON document, or <<"json", jv>>, the text of the JSON    *)
(* document jv.  JSON documents are tagged tuples as well:                 *)
(*   <<"null">> <<"jbool", b>> <<"jnum", i>> <<"jstr", text>>              *)
(*   <<"jarr", seq>> <<"jobj", pairs>>                                     *)
(***************************************************************************)
EXTENDS Integers, Sequences, FiniteSets, TLC

\* ------------------------------------------------------------------ bounds

\* Signals the apps emit in one behaviour: proxy calls, raw requests and
\* broadcasts together.
MaxEmits == 2
\* App instances ever constructed (those of Qiwis.load included).
MaxInst == 3
\* Confirmation dialogs open at once (nested event loops).
MaxNest == 1

\* ------------------------------------------------------- sequence helpers

\* All the orders in which the finite set S can be iterated.
RECURSIVE Orders(_)
Orders(S) ==
  IF S = {} THEN {<<>>}
  ELSE UNION {{<<x>> \o o : o \in Orders(S \ {x})} : x \in S}

Range(s) == {s[i] : i \in DOMAIN s}

\* The sequence s as an explicit tuple (its elements evaluated once).
AsSeq(s) == s \o <<>>

\* pairs: a sequence of <<key, value>>, the model of an (ordered) dict.
Keys(pairs) == {pairs[i][1] : i \in DOMAIN pairs}
HasKey(pairs, k) == \E i \in DOMAIN pairs : pairs[i][1] = k
Get(pairs, k) == pairs[CHOOSE i \in DOMAIN pairs : pairs[i][1] = k][2]
\* d[k] = v: an existing key keeps its place, a new one goes last.
Put(pairs, k, v) ==
  IF HasKey(pairs, k)
  THEN AsSeq([i \in DOMAIN pairs |-> IF pairs[i][1] = k THEN <<k, v>> ELSE pairs[i]])
  ELSE Append(pairs, <<k, v>>)
\* del d[k] / d.pop(k) on a present key.
Del(pairs, k) == SelectSeq(pairs, LAMBDA p : p[1] # k)

\* ------------------------------------------------------------ Python values

None == <<"none">>
Bool(b) == <<"bool", b>>
PyInt(i) == <<"int", i>>
Txt(s) == <<"txt", s>>
Str(s) == <<"str", Txt(s)>>
StrOf(text) == <<"str", text>>
Tuple(s) == <<"tuple", s>>
List(s) == <<"list", s>>
PySet(S) == <<"set", S>>
Dict(pairs) == <<"dict", pairs>>
Obj(cls, pairs) == <<"obj", cls, pairs>>
Func == <<"func">>
\* A list that is its own element (l = []; l.append(l)).
SelfList == <<"selflist">>

IsStr(v) == v[1] = "str"
IsDict(v) == v[1] = "dict"
\* The plain content of a str that holds no JSON document.
PlainOf(v) == v[2][2]
IsPlainStr(v) == IsStr(v) /\ v[2][1] = "txt"

\* ---------------------------------------------------------------- json

\* Whether json.dumps accepts the value (it raises TypeError otherwise).
RECURSIVE Jsonable(_)
Jsonable(v) ==
  CASE v[1] \in {"none", "bool", "int", "str"} -> TRUE
    [] v[1] \in {"tuple", "list"} -> \A i \in DOMAIN v[2] : Jsonable(v[2][i])
    [] v[1] = "dict" -> \A i \in DOMAIN v[2] : Jsonable(v[2][i][2])
    [] OTHER -> FALSE

\* The JSON document json.dumps writes for a value it accepts: tuples and
\* lists both become arrays.
RECURSIVE ToJson(_)
ToJson(v) ==
  CASE v[1] = "none" -> <<"null">>
    [] v[1] = "bool" -> <<"jbool", v[2]>>
    [] v[1] = "int" -> <<"jnum", v[2]>>
    [] v[1] = "str" -> <<"jstr", v[2]>>
    [] v[1] \in {"tuple", "list"} ->
         <<"jarr", AsSeq([i \in DOMAIN v[2] |-> ToJson(v[2][i])])>>
    [] v[1] = "dict" ->
         <<"jobj", AsSeq([i \in DOMAIN v[2] |-> <<v[2][i][1], ToJson(v[2][i][2])>>])>>

\* The value json.loads builds from a JSON document: arrays become lists.
RECURSIVE FromJson(_)
FromJson(j) ==
  CASE j[1] = "null" -> None
    [] j[1] = "jbool" -> Bool(j[2])
    [] j[1] = "jnum" -> PyInt(j[2])
    [] j[1] = "jstr" -> StrOf(j[2])
    [] j[1] = "jarr" -> List(AsSeq([i \in DOMAIN j[2] |-> FromJson(j[2][i])]))
    [] j[1] = "jobj" ->
         Dict(AsSeq([i \in DOMAIN j[2] |-> <<j[2][i][1], FromJson(j[2][i][2])>>]))

\* The exception json.dumps(v) raises, "" when it raises none: TypeError on
\* a value of a type it does not encode, ValueError on a circular reference.
DumpsError(v) ==
  IF Jsonable(v) THEN "" ELSE IF v = SelfList THEN "ValueError" ELSE "TypeError"

\* json.dumps(v) for a Jsonable v: the text of the document.
JsonDumps(v) == <<"json", ToJson(v)>>
\* json.loads raises JSONDecodeError on a text that is no JSON document.
IsJsonText(text) == text[1] = "json"
JsonLoads(text) == FromJson(text[2])

\* ------------------------------------------------------------ dataclasses

\* The fields of the Serializable dataclasses, in declaration order:
\* <<name, has a default, the default>>.
Fields(cls) ==
  CASE cls = "QiwiscallInfo" ->
         << <<"call", FALSE, None>>, <<"args", TRUE, Dict(<<>>)>> >>
    [] cls = "QiwiscallResult" ->
         << <<"done", FALSE, None>>, <<"success", FALSE, None>>,
            <<"value", TRUE, None>>, <<"error", TRUE, None>> >>
    [] cls = "AppInfo" ->
         << <<"module", FALSE, None>>, <<"cls", FALSE, None>>,
            <<"path", TRUE, Str(".")>>, <<"show", TRUE, Bool(TRUE)>>,
            <<"pos", TRUE, Str("")>>, <<"channel", TRUE, Tuple(<<>>)>>,
            <<"args", TRUE, None>> >>

Serializables == {"QiwiscallInfo", "QiwiscallResult", "AppInfo"}
IsSerializable(v) == v[1] = "obj" /\ v[2] \in Serializables

\* cls(**kwargs) raises TypeError on an unknown or a missing argument.
CanConstruct(cls, kwargs) ==
  LET fields == Fields(cls) IN
  /\ \A k \in DOMAIN kwargs : \E i \in DOMAIN fields : fields[i][1] = kwargs[k][1]
  /\ \A i \in DOMAIN fields : fields[i][2] \/ HasKey(kwargs, fields[i][1])

\* cls(**kwargs): every field, in declaration order, given or defaulted.
Construct(cls, kwargs) ==
  LET fields == Fields(cls) IN
  Obj(cls, AsSeq([i \in DOMAIN fields |->
                    <<fields[i][1],
                      IF HasKey(kwargs, fields[i][1]) THEN Get(kwargs, fields[i][1])
                      ELSE fields[i][3]>>]))

Field(obj, name) == Get(obj[3], name)

\* dataclasses.asdict: dataclass instances become dicts, recursively
\* through lists, tuples and dicts, which keep their type.
RECURSIVE AsDict(_)
AsDict(v) ==
  CASE v[1] = "obj" ->
         Dict(AsSeq([i \in DOMAIN v[3] |-> <<v[3][i][1], AsDict(v[3][i][2])>>]))
    [] v[1] \in {"tuple", "list"} ->
         <<v[1], AsSeq([i \in DOMAIN v[2] |-> AsDict(v[2][i])])>>
    [] v[1] = "dict" ->
         Dict(AsSeq([i \in DOMAIN v[2] |-> <<v[2][i][1], AsDict(v[2][i][2])>>]))
    [] OTHER -> v

\* qiwis.dumps(obj) = json.dumps(dataclasses.asdict(obj)); TypeError when
\* a field is not JSONifiable.
CanDumps(obj) == Jsonable(AsDict(obj))
dumps(obj) == JsonDumps(AsDict(obj))

\* qiwis.loads(cls, kwargs) = cls(**json.loads(kwargs)).  The exception it
\* raises, "" when it raises none.
LoadsError(cls, arg) ==
  IF ~IsStr(arg) THEN "TypeError"
  ELSE IF ~IsJsonText(arg[2]) THEN "JSONDecodeError"
  ELSE LET kwargs == JsonLoads(arg[2]) IN
       IF ~IsDict(kwargs) THEN "TypeError"
       ELSE IF ~CanConstruct(cls, kwargs[2]) THEN "TypeError"
       ELSE ""
loads(cls, arg) == Construct(cls, JsonLoads(arg[2])[2])


\* ------------------------------------------------------------- universe

\* The app classes the dynamic loader can find, by module, and the number
\* of frames an instance returns from frames(); -1 when frames() raises.
Classes ==
  << <<"examples.numgen", "NumGenApp", 2>>,
     <<"examples.logger", "LoggerApp", 1>>,
     <<"qiwis", "BaseApp", 0>>,
     <<"examples.broken", "BrokenApp", -1>> >>
ModuleExists(module) == \E i \in DOMAIN Classes : Classes[i][1] = module
ClassExists(module, cls) ==
  \E i \in DOMAIN Classes : Classes[i][1] = module /\ Classes[i][2] = cls
ClassFrames(module, cls) ==
  Classes[CHOOSE i \in DOMAIN Classes :
            Classes[i][1] = module /\ Classes[i][2] = cls][3]

AppInfo(kwargs) == Construct("AppInfo", kwargs)
InfoNumGen ==
  AppInfo(<< <<"module", Str("examples.numgen")>>, <<"cls", Str("NumGenApp")>>,
             <<"channel", List(<<Str("ch1"), Str("ch2")>>)>> >>)
InfoLogger ==
  AppInfo(<< <<"module", Str("examples.logger")>>, <<"cls", Str("LoggerApp")>>,
             <<"show", Bool(FALSE)>>, <<"channel", List(<<Str("ch1")>>)>> >>)
InfoBase ==
  AppInfo(<< <<"module", Str("qiwis")>>, <<"cls", Str("BaseApp")>> >>)
\* An info that names a module that cannot be imported, and one of a class
\* whose frames() raises.
InfoMissing ==
  AppInfo(<< <<"module", Str("examples.missing")>>, <<"cls", Str("MissingApp")>>,
             <<"channel", List(<<Str("ch2")>>)>> >>)
InfoBroken ==
  AppInfo(<< <<"module", Str("examples.broken")>>, <<"cls", Str("BrokenApp")>>,
             <<"channel", List(<<Str("ch2")>>)>> >>)

\* ------------------------------------------------------------- registry
\* The Qiwis object: a record q with
\*   appInfos        the mapping given to the constructor (pairs)
\*   apps            _apps, name -> instance (pairs, in insertion order)
\*   subscribers     _subscribers, channel -> set of names (pairs); a
\*                   defaultdict, so reading a missing channel creates it
\*   wrapperWidgets  _wrapperWidgets, name -> list of wrapper widgets
\*   widgets         the wrapper widgets alive under the main window
\*   objects         the app objects constructed so far: the name each was
\*                   constructed with, by instance number
\* A wrapper widget is <<instance, k>>: the wrapper of the instance's k-th
\* frame.  A method yields [q, value, exc, frames]: the object after the
\* call, the value returned, the exception raised ("" when none) and what
\* app.frames() returned to the method, if it asked.

Ret(q, v) == [q |-> q, value |-> v, exc |-> "", frames |-> {}]
Raise(q, e) == [q |-> q, value |-> None, exc |-> e, frames |-> {}]

\* self._subscribers[channel] of the defaultdict(set).
Touch(q, channel) ==
  IF HasKey(q.subscribers, channel) THEN q
  ELSE [q EXCEPT !.subscribers = Append(@, <<channel, {}>>)]

\* self._wrapperWidgets[name] of the defaultdict(list).
TouchWidgets(q, name) ==
  IF name \in DOMAIN q.wrapperWidgets THEN q
  ELSE [q EXCEPT !.wrapperWidgets =
          [n \in DOMAIN @ \cup {name} |-> IF n \in DOMAIN @ THEN @[n] ELSE <<>>]]

appNames(q) == Ret(q, Tuple(AsSeq([i \in DOMAIN q.apps |-> Str(q.apps[i][1])])))

channelNames(q) ==
  Ret(q, Tuple(AsSeq([i \in DOMAIN q.subscribers |-> Str(q.subscribers[i][1])])))

subscriberNames(q, channel) ==
  LET q1 == Touch(q, channel) IN
  Ret(q1, PySet({Str(n) : n \in Get(q1.subscribers, channel)}))

\* A subscribe that takes a subscriber out again: C17_SubscribeIdempotent
\* tells it from subscribe.
subscribeToggles(q0, app, channel) ==
  LET q1 == Touch(q0, channel) IN
  Ret([q1 EXCEPT !.subscribers =
         Put(@, channel, IF app \in Get(@, channel) THEN Get(@, channel) \ {app}
                         ELSE Get(@, channel) \cup {app})],
      None)

subscribe(q, app, channel) ==
  LET q1 == Touch(q, channel) IN
  IF app \in Get(q1.subscribers, channel) THEN Ret(q1, None)
  ELSE Ret([q1 EXCEPT !.subscribers = Put(@, channel, Get(@, channel) \cup {app})],
           None)

\* An unsubscribe that empties the channel: C18_Unsubscribe tells it from
\* unsubscribe.
unsubscribeClearsChannel(q0, app, channel) ==
  LET q1 == Touch(q0, channel) IN
  IF app \notin Get(q1.subscribers, channel) THEN Ret(q1, Bool(FALSE))
  ELSE Ret([q1 EXCEPT !.subscribers = Put(@, channel, {})], Bool(TRUE))

unsubscribe(q, app, channel) ==
  LET q1 == Touch(q, channel) IN
  IF app \notin Get(q1.subscribers, channel) THEN Ret(q1, Bool(FALSE))
  ELSE Ret([q1 EXCEPT !.subscribers = Put(@, channel, Get(@, channel) \ {app})],
           Bool(TRUE))

addFrame(q, name, frame) ==
  LET q1 == TouchWidgets(q, name) IN
  [q1 EXCEPT !.wrapperWidgets[name] = Append(@, frame),
             !.widgets = @ \cup {frame}]

removeFrame(q, name, wrapperWidget) ==
  [q EXCEPT !.wrapperWidgets[name] = SelectSeq(@, LAMBDA w : w # wrapperWidget),
            !.widgets = @ \ {wrapperWidget}]

\* for wrapperWidget in wrapperWidgets: self.removeFrame(name, wrapperWidget)
\* The list iterated is the list removeFrame removes from: the iterator's
\* index i advances over the shrinking list.
RECURSIVE RemoveFramesLoop(_, _, _)
RemoveFramesLoop(q, name, i) ==
  IF i > Len(q.wrapperWidgets[name]) THEN q
  ELSE RemoveFramesLoop(removeFrame(q, name, q.wrapperWidgets[name][i]), name, i + 1)

\* A destroyApp that leaves the subscriber sets alone: C12_DestroyApp tells
\* it from destroyApp.
destroyAppKeepsSubscribers(q0, name) ==
  LET q1 == RemoveFramesLoop(TouchWidgets(q0, name), name, 1)
      q2 == [q1 EXCEPT !.wrapperWidgets = [n \in DOMAIN @ \ {name} |-> @[n]]]
  IN IF HasKey(q2.apps, name)
     THEN Ret([q2 EXCEPT !.apps = Del(@, name)], None)
     ELSE Raise(q2, "KeyError")

destroyApp(q, name) ==
  LET q1 == RemoveFramesLoop(TouchWidgets(q, name), name, 1)
      q2 == [q1 EXCEPT !.wrapperWidgets = [n \in DOMAIN @ \ {name} |-> @[n]]]
      q3 == [q2 EXCEPT !.subscribers =
               AsSeq([i \in DOMAIN @ |-> <<@[i][1], @[i][2] \ {name}>>])]
  IN IF HasKey(q3.apps, name)
     THEN Ret([q3 EXCEPT !.apps = Del(@, name)], None)
     ELSE Raise(q3, "KeyError")

RECURSIVE SubscribeAll(_, _, _)
SubscribeAll(q, name, channels) ==
  IF channels = <<>> THEN q
  ELSE SubscribeAll(subscribe(q, name, PlainOf(Head(channels))).q, name, Tail(channels))

RECURSIVE AddFrames(_, _, _, _)
AddFrames(q, name, inst, k) ==
  IF k = 0 THEN q
  ELSE addFrame(AddFrames(q, name, inst, k - 1), name, <<inst, k>>)

\* A faulty createApp that subscribes a live name to the channels of the
\* info it ignores: C36_LiveNameIgnored tells it from createApp.
createAppAddsChannels(q, name, info, replace) ==
  IF HasKey(q.apps, name) /\ ~replace
  THEN Ret(SubscribeAll(q, name, Field(info, "channel")[2]), None)
  ELSE
    LET q0 == IF HasKey(q.apps, name) THEN destroyApp(q, name).q ELSE q
        module == PlainOf(Field(info, "module"))
        cls == PlainOf(Field(info, "cls"))
        inst == Len(q0.objects) + 1
        q1 == [q0 EXCEPT !.objects = Append(@, name)]
        q2 == SubscribeAll(q1, name, Field(info, "channel")[2])
        q3 == AddFrames(q2, name, inst, ClassFrames(module, cls))
    IN CASE ~ModuleExists(module) -> Raise(q0, "ModuleNotFoundError")
         [] ~ClassExists(module, cls) -> Raise(q0, "AttributeError")
         [] ClassFrames(module, cls) < 0 -> Raise(q2, "RuntimeError")
         [] OTHER -> Ret([q3 EXCEPT !.apps = Put(@, name, inst)], None)

createApp(q, name, info, replace) ==
  IF HasKey(q.apps, name) /\ ~replace THEN Ret(q, None)
  ELSE
    LET q0 == IF HasKey(q.apps, name) THEN destroyApp(q, name).q ELSE q
        module == PlainOf(Field(info, "module"))
        cls == PlainOf(Field(info, "cls"))
        inst == Len(q0.objects) + 1
        q1 == [q0 EXCEPT !.objects = Append(@, name)]
        q2 == SubscribeAll(q1, name, Field(info, "channel")[2])
        q3 == AddFrames(q2, name, inst, ClassFrames(module, cls))
    IN CASE ~ModuleExists(module) -> Raise(q0, "ModuleNotFoundError")
         [] ~ClassExists(module, cls) -> Raise(q0, "AttributeError")
         [] ClassFrames(module, cls) < 0 -> Raise(q2, "RuntimeError")
         [] OTHER -> Ret([q3 EXCEPT !.apps = Put(@, name, inst)], None)

\* The frames an app object can return from frames() when it is asked
\* again: any of its first two.
FrameChoices(inst) == SUBSET {<<inst, k>> : k \in 1..2}

RECURSIVE RemoveFrames(_, _, _)
RemoveFrames(q, name, frames) ==
  IF frames = <<>> THEN q
  ELSE RemoveFrames(removeFrame(q, name, Head(frames)), name, Tail(frames))

RECURSIVE AddNewFrames(_, _, _)
AddNewFrames(q, name, frames) ==
  IF frames = <<>> THEN q
  ELSE AddNewFrames(addFrame(q, name, Head(frames)), name, Tail(frames))

\* Qiwis.updateFrames(name), where app.frames() returns newFrames and the
\* two set differences are iterated in the orders removed and added.
updateFrames(q, name, newFrames, removed, added) ==
  IF ~HasKey(q.apps, name) THEN Raise(q, "KeyError")
  ELSE IF ~HasKey(q.appInfos, name) THEN Raise(q, "KeyError")
  ELSE Ret(AddNewFrames(RemoveFrames(TouchWidgets(q, name), name, removed),
                        name, added),
           None)

\* Qiwis.load: createApp for every entry of appInfos, in order.
RECURSIVE load(_, _)
load(q, appInfos) ==
  IF appInfos = <<>> THEN q
  ELSE load(createApp(q, Head(appInfos)[1], Head(appInfos)[2], FALSE).q, Tail(appInfos))

\* Qiwis.__init__(appInfos).
NewQiwis(appInfos) ==
  load([appInfos |-> appInfos, apps |-> <<>>, subscribers |-> <<>>,
        wrapperWidgets |-> <<>>, widgets |-> {}, objects |-> <<>>], appInfos)


\* -------------------------------------------------------------- gateway

\* The exceptions, named by their repr() where the source gives the message.
ValueErrorPrivate == "ValueError('Only public method calls are allowed.')"
RuntimeErrorRejected == "RuntimeError('The user rejected the request.')"
\* repr(error) as the str put in the result.
Repr(e) == Str(e)

\* info.call.startswith("_") for the attribute names the requests use.
PrivateNames == {"_broadcast", "_qiwiscall", "_handleQiwiscall", "_parseArgs"}
StartsWithUnderscore(name) == name \in PrivateNames

\* The public methods of Qiwis that requests can name, with the parameters
\* of each: <<name, annotation, has a default>>.
Signature(call) ==
  CASE call = "appNames" -> <<>>
    [] call = "channelNames" -> <<>>
    [] call = "subscriberNames" -> << <<"channel", "str", FALSE>> >>
    [] call = "subscribe" -> << <<"app", "str", FALSE>>, <<"channel", "str", FALSE>> >>
    [] call = "unsubscribe" -> << <<"app", "str", FALSE>>, <<"channel", "str", FALSE>> >>
    [] call = "createApp" ->
         << <<"name", "str", FALSE>>, <<"info", "AppInfo", FALSE>>,
            <<"replace", "bool", TRUE>> >>
    [] call = "destroyApp" -> << <<"name", "str", FALSE>> >>
    [] call = "updateFrames" -> << <<"name", "str", FALSE>> >>
PublicMethods ==
  {"appNames", "channelNames", "subscriberNames", "subscribe", "unsubscribe",
   "createApp", "destroyApp", "updateFrames"}
HasAttr(name) == name \in PublicMethods \cup PrivateNames

Annotation(call, pname) ==
  LET sig == Signature(call) IN
  sig[CHOOSE i \in DOMAIN sig : sig[i][1] = pname][2]

\* Qiwis._parseArgs, from the i-th argument on: [exc, args].
RECURSIVE ParseArgsFrom(_, _, _, _)
ParseArgsFrom(call, args, i, parsedArgs) ==
  IF i > Len(args) THEN [exc |-> "", args |-> parsedArgs]
  ELSE
    LET name == args[i][1]
        arg == args[i][2]
        sig == Signature(call)
    IN IF ~\E k \in DOMAIN sig : sig[k][1] = name
       THEN [exc |-> "KeyError", args |-> parsedArgs]
       ELSE LET cls == Annotation(call, name)
                error == LoadsError(cls, arg)
            IN IF cls \in Serializables
               THEN IF error # ""
                    THEN [exc |-> error, args |-> parsedArgs]
                    ELSE ParseArgsFrom(call, args, i + 1,
                                       Append(parsedArgs, <<name, loads(cls, arg)>>))
               ELSE ParseArgsFrom(call, args, i + 1, Append(parsedArgs, <<name, arg>>))
parseArgs(call, args) == ParseArgsFrom(call, args, 1, <<>>)

\* A _handleQiwiscall that asks for the confirmation before the arguments
\* are resolved: C23_StepOrder tells it from handleQiwiscallStart.
handleQiwiscallStartAsksFirst(msg) ==
  LET failed(e) == [exc |-> e, call |-> "", args |-> <<>>, parsed |-> FALSE]
      error == LoadsError("QiwiscallInfo", StrOf(msg))
  IN IF error # "" THEN failed(error)
     ELSE
       LET info == loads("QiwiscallInfo", StrOf(msg))
           callV == Field(info, "call")
           argsV == Field(info, "args")
       IN CASE ~IsPlainStr(callV) -> failed("AttributeError")
            [] StartsWithUnderscore(PlainOf(callV)) -> failed(ValueErrorPrivate)
            [] ~HasAttr(PlainOf(callV)) -> failed("AttributeError")
            [] ~IsDict(argsV) -> failed("AttributeError")
            [] OTHER ->
                 [exc |-> "", call |-> PlainOf(callV),
                  args |-> parseArgs(PlainOf(callV), argsV[2]).args,
                  parsed |-> TRUE]

\* Qiwis._handleQiwiscall up to the confirmation (lines 434-438):
\* [exc, call, args]; exc = "" when the confirmation is to be asked.
handleQiwiscallStart(msg) ==
  LET failed(e) == [exc |-> e, call |-> "", args |-> <<>>, parsed |-> FALSE]
      error == LoadsError("QiwiscallInfo", StrOf(msg))
  IN IF error # "" THEN failed(error)
     ELSE
       LET info == loads("QiwiscallInfo", StrOf(msg))
           callV == Field(info, "call")
           argsV == Field(info, "args")
       IN CASE ~IsPlainStr(callV) -> failed("AttributeError")
            [] StartsWithUnderscore(PlainOf(callV)) -> failed(ValueErrorPrivate)
            [] ~HasAttr(PlainOf(callV)) -> failed("AttributeError")
            [] ~IsDict(argsV) -> failed("AttributeError")
            [] OTHER ->
                 LET p == parseArgs(PlainOf(callV), argsV[2]) IN
                 [exc |-> p.exc, call |-> PlainOf(callV), args |-> p.args,
                  parsed |-> TRUE]

Truthy(v) ==
  CASE v[1] = "bool" -> v[2]
    [] v[1] = "none" -> FALSE
    [] OTHER -> TRUE

\* call(**args) on the bound method (line 447): TypeError when a parameter
\* without default is missing.
Invoke(q, call, args) ==
  LET sig == Signature(call)
      a(n) == PlainOf(Get(args, n))
  IN IF \E i \in DOMAIN sig : ~sig[i][3] /\ ~HasKey(args, sig[i][1])
     THEN Raise(q, "TypeError")
     ELSE CASE call = "appNames" -> appNames(q)
            [] call = "channelNames" -> channelNames(q)
            [] call = "subscriberNames" -> subscriberNames(q, a("channel"))
            [] call = "subscribe" -> subscribe(q, a("app"), a("channel"))
            [] call = "unsubscribe" -> unsubscribe(q, a("app"), a("channel"))
            [] call = "createApp" ->
                 createApp(q, a("name"), Get(args, "info"),
                           HasKey(args, "replace") /\ Truthy(Get(args, "replace")))
            [] call = "destroyApp" -> destroyApp(q, a("name"))

\* The outcomes call(**args) can have: one, but for updateFrames of a live
\* app, which has one for every set the app returns from frames() and
\* every order the set differences are iterated in.  frames is the set
\* frames() returned.
Invocations(q, call, args) ==
  IF call = "updateFrames" /\ HasKey(args, "name")
        /\ HasKey(q.apps, PlainOf(Get(args, "name")))
  THEN LET name == PlainOf(Get(args, "name"))
           orgFrames == Range(TouchWidgets(q, name).wrapperWidgets[name])
       IN UNION {{[updateFrames(q, name, newFrames, removed, added)
                     EXCEPT !.frames = newFrames] :
                    removed \in Orders(orgFrames \ newFrames),
                    added \in Orders(newFrames \ orgFrames)} :
                 newFrames \in FrameChoices(Get(q.apps, name))}
  ELSE IF call = "updateFrames" /\ HasKey(args, "name")
  THEN {Raise(q, "KeyError")}
  ELSE {Invoke(q, call, args)}

QiwiscallResult(done, success, value, error) ==
  Obj("QiwiscallResult",
      << <<"done", Bool(done)>>, <<"success", Bool(success)>>,
         <<"value", value>>, <<"error", error>> >>)

\* A faulty packing that reports every outcome as a success: C5_Packaging
\* tells it from packResult.
packResultAlwaysSuccess(out) == QiwiscallResult(TRUE, TRUE, out.value, None)

\* Qiwis._qiwiscall from the except/else on (lines 462-471), given what
\* _handleQiwiscall did (out = [q, value, exc]):
\*   escaped  the exception that leaves _qiwiscall ("" when none)
\*   emitted  whether qiwiscallReturned was emitted
\*   target   the instance it was emitted on (0 when not emitted)
\*   result   the result string emitted
packResult(out) ==
  IF out.exc # ""
  THEN QiwiscallResult(TRUE, FALSE, None, Repr(out.exc))
  ELSE QiwiscallResult(TRUE, TRUE,
                       IF IsSerializable(out.value) THEN StrOf(dumps(out.value))
                       ELSE out.value,
                       None)

qiwiscallFinish(sender, out) ==
  LET none == [escaped |-> "", emitted |-> FALSE, target |-> 0, result |-> Txt("")]
      result == packResult(out)
  IN CASE out.exc = "" /\ IsSerializable(out.value) /\ ~CanDumps(out.value) ->
            [none EXCEPT !.escaped = "TypeError"]
       [] ~HasKey(out.q.apps, sender) -> [none EXCEPT !.escaped = "KeyError"]
       [] ~CanDumps(result) -> [none EXCEPT !.escaped = "TypeError"]
       [] OTHER -> [escaped |-> "", emitted |-> TRUE,
                    target |-> Get(out.q.apps, sender), result |-> dumps(result)]


\* ---------------------------------------------------------------- proxy

\* A faulty fresh handle, already done: C8_ProxyNeverBlocks tells it from
\* NewHandle.
DoneHandle == [done |-> Bool(TRUE), success |-> Bool(FALSE), value |-> None,
               error |-> None]

\* A QiwiscallResult object held by an app (a handle): its four fields.
NewHandle == [done |-> Bool(FALSE), success |-> Bool(FALSE), value |-> None,
              error |-> None]

\* QiwiscallProxy.__getattr__.proxy, lines 627-632: the Serializable
\* arguments are replaced by their dumps() and the request is dumps(info).
proxyArgs(args) ==
  AsSeq([i \in DOMAIN args |->
           <<args[i][1],
             IF IsSerializable(args[i][2]) THEN StrOf(dumps(args[i][2])) ELSE args[i][2]>>])
proxyInfo(call, args) ==
  Construct("QiwiscallInfo", << <<"call", Str(call)>>, <<"args", Dict(proxyArgs(args))>> >>)
\* Whether the proxy gets as far as storing and emitting (no TypeError).
CanProxy(call, args) ==
  /\ \A i \in DOMAIN args : IsSerializable(args[i][2]) => CanDumps(args[i][2])
  /\ CanDumps(proxyInfo(call, args))
proxyMsg(call, args) == dumps(proxyInfo(call, args))
\* A faulty store that keeps the handle already there: C9_Duplicate tells it
\* from store.
storeFirst(tbl, msg, h) == IF HasKey(tbl, msg) THEN tbl ELSE Put(tbl, msg, h)

\* self.results[msg] = result (line 636): the handle h goes under msg, over
\* the handle that was there.
store(tbl, msg, h) == Put(tbl, msg, h)

\* A faulty update_result that leaves the error of the handle as it was:
\* C10_UpdateResult tells it from update_result.
update_resultKeepsError(tbl, hs, request, result, discard) ==
  IF ~HasKey(tbl, request) THEN [results |-> tbl, handles |-> hs, found |-> FALSE]
  ELSE
    LET h == Get(tbl, request) IN
    [results |-> IF discard THEN Del(tbl, request) ELSE tbl,
     handles |-> [hs EXCEPT ![h] = [error |-> hs[h].error,
                                    value |-> Field(result, "value"),
                                    success |-> Field(result, "success"),
                                    done |-> Field(result, "done")]],
     found |-> TRUE]

\* A faulty update_result that never discards the request: C27_Handle
\* tells it from update_result.
update_resultNeverDiscards(tbl, hs, request, result, discard) ==
  IF ~HasKey(tbl, request) THEN [results |-> tbl, handles |-> hs, found |-> FALSE]
  ELSE
    LET h == Get(tbl, request) IN
    [results |-> tbl,
     handles |-> [hs EXCEPT ![h] = [error |-> Field(result, "error"),
                                    value |-> Field(result, "value"),
                                    success |-> Field(result, "success"),
                                    done |-> Field(result, "done")]],
     found |-> TRUE]

\* QiwiscallProxy.update_result on the pending table tbl (pairs request ->
\* handle number) and the handles hs: [results, handles, found].
update_result(tbl, hs, request, result, discard) ==
  IF ~HasKey(tbl, request) THEN [results |-> tbl, handles |-> hs, found |-> FALSE]
  ELSE
    LET h == Get(tbl, request) IN
    [results |-> IF discard THEN Del(tbl, request) ELSE tbl,
     handles |-> [hs EXCEPT ![h] = [error |-> Field(result, "error"),
                                    value |-> Field(result, "value"),
                                    success |-> Field(result, "success"),
                                    done |-> Field(result, "done")]],
     found |-> TRUE]

\* BaseApp._receivedQiwiscallResult: [results, handles, found, exc, updated].
receivedQiwiscallResult(tbl, hs, request, msg) ==
  LET same == [results |-> tbl, handles |-> hs, found |-> FALSE]
      error == LoadsError("QiwiscallResult", StrOf(msg))
  IN CASE error = "JSONDecodeError" -> [r |-> same, exc |-> "", updated |-> FALSE]
       [] error # "" -> [r |-> same, exc |-> error, updated |-> FALSE]
       [] OTHER ->
            [r |-> update_result(tbl, hs, request,
                                 loads("QiwiscallResult", StrOf(msg)), TRUE),
             exc |-> "", updated |-> TRUE]

\* ------------------------------------------------------------ the requests

Kw(k, v) == <<k, v>>
\* What the code of an app does with its signals:
\*   <<"proxy", call, args>>          self.qiwiscall.<call>(**args)
\*   <<"raw", msg>>                   self.qiwiscallRequested.emit(msg)
\*   <<"broadcast", channel, content>> self.broadcast(channel, content)
Proxied(call, args) == <<"proxy", call, args>>
Raw(msg) == <<"raw", msg>>
Broadcast(channelName, content) == <<"broadcast", channelName, content>>
\*   <<"echo", channel, content>>     self.broadcast(channel, content) in
\*                                    the app's receivedSlot
Echo(channelName, content) == <<"echo", channelName, content>>
\*   <<"emit", channel, msg>>         self.broadcastRequested.emit(channel, msg)
Emit(channelName, msg) == <<"emit", channelName, msg>>

\* Apps that work on the bus.
BusRequests ==
  {Proxied("subscribe", <<Kw("app", Str("app2")), Kw("channel", Str("ch1"))>>),
   Proxied("unsubscribe", <<Kw("app", Str("app1")), Kw("channel", Str("ch1"))>>),
   Proxied("channelNames", <<>>),
   Broadcast("ch1", Str("m1"))}
\* Apps that open and close apps.
LifeRequests ==
  {Proxied("destroyApp", <<Kw("name", Str("app1"))>>),
   Proxied("destroyApp", <<Kw("name", Str("app2"))>>),
   Proxied("createApp", <<Kw("name", Str("app2")), Kw("info", InfoLogger)>>),
   Proxied("createApp", <<Kw("name", Str("app1")), Kw("info", InfoBase),
                          Kw("replace", Bool(TRUE))>>),
   Broadcast("ch1", Str("m1"))}
\* Apps that look at the registry.
QueryRequests ==
  {Proxied("appNames", <<>>),
   Proxied("subscriberNames", <<Kw("channel", Str("ch2"))>>),
   Proxied("unsubscribe", <<Kw("app", Str("app2")), Kw("channel", Str("ch1"))>>),
   Broadcast("ch2", Str("m1"))}
\* Requests that name no public method, or are no request at all, next to
\* the closing of an app.
BadCallRequests ==
  {Proxied("_broadcast", <<Kw("channelName", Str("ch1")), Kw("msg", Str("m"))>>),
   Proxied("callForTest", <<Kw("a", PyInt(123))>>),
   Raw(Txt("{")),
   Raw(JsonDumps(List(<<>>))),
   Proxied("destroyApp", <<Kw("name", Str("app1"))>>)}
\* Requests of a public method with arguments it does not take.
BadArgsRequests ==
  {Proxied("subscribe", <<Kw("app", Str("app1"))>>),
   Proxied("unsubscribe", <<Kw("foo", Str("app1"))>>),
   Proxied("createApp", <<Kw("name", Str("app2")), Kw("info", Str("module1"))>>)}
\* Apps that only broadcast: a content that is JSONifiable or is not.
BroadcastRequests ==
  {Broadcast("ch1", Str("m1")), Broadcast("ch1", Str("m2")),
   Broadcast("ch2", Str("m1")), Broadcast("ch1", Func),
   Broadcast("ch1", SelfList), Emit("ch1", Txt("Generated number: 1.")),
   Echo("ch1", Str("m2"))}
\* Apps that have the frames of an app updated.
FrameRequests ==
  {Proxied("updateFrames", <<Kw("name", Str("app2"))>>),
   Proxied("createApp", <<Kw("name", Str("app2")), Kw("info", InfoLogger)>>)}
\* Apps that subscribe, open and close an app by its name, live or not.
NameRequests ==
  {Proxied("subscribe", <<Kw("app", Str("app2")), Kw("channel", Str("ch2"))>>),
   Proxied("destroyApp", <<Kw("name", Str("app2"))>>),
   Proxied("createApp", <<Kw("name", Str("app2")), Kw("info", InfoLogger)>>)}
\* Apps that open an app whose code fails.
FailRequests ==
  {Proxied("createApp", <<Kw("name", Str("app1")), Kw("info", InfoMissing),
                          Kw("replace", Bool(TRUE))>>),
   Proxied("createApp", <<Kw("name", Str("app2")), Kw("info", InfoBroken)>>)}

\* What the code of the loaded apps can do: one of these sets in a
\* behaviour.
Repertoires ==
  {BusRequests, LifeRequests, QueryRequests, BadCallRequests, BadArgsRequests,
   BroadcastRequests, NameRequests, FrameRequests, FailRequests}

\* The appInfos the program can be started with.
Configs ==
  {<< <<"app1", InfoNumGen>>, <<"app2", InfoLogger>> >>,
   << <<"app1", InfoNumGen>>, <<"app2", InfoBase>> >>,
   << <<"app1", InfoLogger>> >>}

\* ------------------------------------------------------------------ state

\* ------------------------------------------------------- the legacy bus
\* A Bus of swift/bus.py: a record with
\*   queue     _queue, the SimpleQueue, oldest first
\*   consumer  whether _consumer is a QueueConsumer (not None)
\*   running   _consumer._running
\*   pc        where the thread of the consumer is:
\*               "none"      there is no thread
\*               "created"   _thread.start() was called, run() has not begun
\*               "loop"      run() is at the test of its while loop
\*               "get"       run() is inside _queue.get(block=True, timeout)
\*               "got"       get() has returned item, consumed is not emitted
\*               "finished"  run() has emitted finished and returned
\*   item      the item get() returned
\*   events    the events posted to the thread of the Bus, oldest first:
\*               <<"consumed", item>>  consumed -> received
\*               <<"finished">>        finished -> quit, wait, _clean_up
\*   received  the emissions of received so far, oldest first
\*   written   the messages given to write() so far, oldest first
\*   stopped   whether a stop() has set _running to False so far
\*   threads   the number of threads started for a consumer whose run() has
\*             not returned yet
NewBus ==
  [queue |-> <<>>, consumer |-> FALSE, running |-> FALSE, pc |-> "none",
   item |-> "", events |-> <<>>, received |-> <<>>, written |-> <<>>,
   stopped |-> FALSE, threads |-> 0]

\* ---------------------------------------------------- the legacy registry
\* The Swift object of swift.py: a record with
\*   apps         _apps, name -> app object (pairs)
\*   subscribers  _subscribers, the defaultdict(set): channel -> members
\*                (pairs); a member is what was added to the set, the app
\*                object <<"object", n>> or the string <<"name", s>>
\*   dockWidgets  _dockWidgets, the defaultdict(list): name -> the number
\*                of dock widgets (pairs)
\*   objects      the app objects created so far: the name and the info
\*                each was created with
\* An info is [cls, channel, frames]: the class, AppInfo.channel, and the
\* number of frames the frames() of the class returns.
SwiftObject(n) == <<"object", n>>
SwiftName(s) == <<"name", s>>

EmptySwift == [apps |-> <<>>, subscribers |-> <<>>, dockWidgets |-> <<>>,
               objects |-> <<>>]

\* self._subscribers[channel] of the defaultdict(set): the key is made.
Swift_touch(s, channel) ==
  IF HasKey(s.subscribers, channel) THEN s
  ELSE [s EXCEPT !.subscribers = Append(@, <<channel, {}>>)]

\* Swift.subscribe(app, channel).
Swift_subscribe(s, app, channel) ==
  LET s1 == Swift_touch(s, channel) IN
  [s |-> [s1 EXCEPT !.subscribers =
            Put(@, channel, Get(s1.subscribers, channel) \cup {app})],
   value |-> None, exc |-> ""]

\* Swift.unsubscribe(app, channel).
Swift_unsubscribe(s, app, channel) ==
  LET s1 == Swift_touch(s, channel)
      subscribers == Get(s1.subscribers, channel)
  IN IF app \in subscribers
     THEN [s |-> [s1 EXCEPT !.subscribers = Put(@, channel, subscribers \ {app})],
           value |-> Bool(TRUE), exc |-> ""]
     ELSE [s |-> s1, value |-> Bool(FALSE), exc |-> ""]

\* Swift.subscriberNames(channel): a copy of the set.
Swift_subscriberNames(s, channel) ==
  LET s1 == Swift_touch(s, channel) IN
  [s |-> s1, value |-> Get(s1.subscribers, channel), exc |-> ""]

\* for channelName in info.channel: self.subscribe(app, channelName)
RECURSIVE Swift_subscribeAll(_, _, _)
Swift_subscribeAll(s, app, channels) ==
  IF channels = <<>> THEN s
  ELSE Swift_subscribeAll(Swift_subscribe(s, app, Head(channels)).s, app,
                          Tail(channels))

\* for frame in app.frames(): self.addFrame(name, frame, info)
Swift_addFrames(s, name, n) ==
  IF n = 0 THEN s
  ELSE [s EXCEPT !.dockWidgets =
          Put(@, name, (IF HasKey(s.dockWidgets, name)
                        THEN Get(s.dockWidgets, name) ELSE 0) + n)]

\* Swift.createApp(name, info): the new app object itself is subscribed.
Swift_createApp(s, name, info) ==
  LET app == SwiftObject(Len(s.objects) + 1)
      s1 == [s EXCEPT !.objects = Append(@, [name |-> name, info |-> info])]
      s2 == Swift_subscribeAll(s1, app, info.channel)
      s3 == Swift_addFrames(s2, name, info.frames)
  IN [s |-> [s3 EXCEPT !.apps = Put(@, name, app)], value |-> None, exc |-> ""]

\* Swift.destroyApp(name).
Swift_destroyApp(s, name) ==
  IF ~HasKey(s.dockWidgets, name) THEN [s |-> s, value |-> None, exc |-> "KeyError"]
  ELSE
    LET s1 == [s EXCEPT !.dockWidgets = Del(@, name)] IN
    IF ~HasKey(s1.apps, name) THEN [s |-> s1, value |-> None, exc |-> "KeyError"]
    ELSE
      LET app == Get(s1.apps, name) IN
      [s |-> [s1 EXCEPT !.apps = Del(@, name),
                        !.subscribers =
                          AsSeq([k \in DOMAIN @ |-> <<@[k][1], @[k][2] \ {app}>>])],
       value |-> None, exc |-> ""]

\* Swift.load(appInfos).
RECURSIVE Swift_load(_, _)
Swift_load(s, appInfos) ==
  IF appInfos = <<>> THEN s
  ELSE Swift_load(Swift_createApp(s, Head(appInfos)[1], Head(appInfos)[2]).s,
                  Tail(appInfos))

SwiftInfo1 == [cls |-> "cls1", channel |-> <<"ch1", "ch2">>, frames |-> 1]
SwiftInfo2 == [cls |-> "cls2", channel |-> <<>>, frames |-> 1]
SwiftInfo3 == [cls |-> "cls3", channel |-> <<"ch1">>, frames |-> 0]
\* Swift(appInfos): the object after its constructor.
NewSwift == Swift_load(EmptySwift, << <<"app1", SwiftInfo1>>, <<"app2", SwiftInfo2>> >>)

\* A faulty emission that is posted before the events already waiting:
\* C29_Delivery tells it from consumed.
consumedFront(events, item) == << <<"consumed", item>> >> \o events

\* self.consumed.emit(item) in the thread of the consumer: the connection
\* to Bus.received crosses threads, the emission is posted.
consumed(events, item) == Append(events, <<"consumed", item>>)

VARIABLES
  q,        \* the Qiwis object (see "registry")
  queue,    \* the posted events of the queued connections, oldest first:
            \*   <<"broadcast", channel, msg>>  broadcastRequested -> _broadcast
            \*   <<"qiwiscall", sender, msg>>   qiwiscallRequested -> _qiwiscall
  dialogs,  \* the _qiwiscall invocations waiting in QMessageBox.warning,
            \* innermost last: [sender, msg, call, args]
  results,  \* QiwiscallProxy.results of every app object, by instance
  handles,  \* the QiwiscallResult objects the proxies returned, by number
  inbox,    \* the (channel, content) receivedSlot was called with, by instance
  repertoire, \* the requests the code of the loaded apps makes
  used,     \* the number of proxy calls, raw requests and broadcasts so far
  sent,     \* the broadcastRequested emissions so far, oldest first:
            \* <<instance, channel, msg>>
  bus,      \* a Bus of swift/bus.py (see "the legacy bus")
  swift,    \* the Swift object of swift.py (see "the legacy registry")
  last      \* what the last step did

vars ==
  <<q, queue, dialogs, results, handles, inbox, repertoire, used, sent,
    bus, swift, last>>

Live(i) == \E k \in DOMAIN q.apps : q.apps[k][2] = i
NameOf(i) == q.objects[i]

\* The per-instance tables, grown to the n objects constructed.
Grown(f, n) == AsSeq([i \in 1..n |-> IF i \in DOMAIN f THEN f[i] ELSE <<>>])

Init ==
  /\ q \in {NewQiwis(c) : c \in Configs}
  /\ queue = <<>>
  /\ dialogs = <<>>
  /\ results = Grown(<<>>, Len(q.objects))
  /\ handles = <<>>
  /\ inbox = Grown(<<>>, Len(q.objects))
  /\ repertoire \in Repertoires
  /\ used = 0
  /\ sent = <<>>
  /\ bus = NewBus
  /\ swift = NewSwift
  /\ last = [op |-> "init"]

\* ----------------------------------------------------------------- apps

\* app.qiwiscall.<call>(**args) in the live app object i.
ProxyCall(i, call, args) ==
  /\ used < MaxEmits
  /\ Live(i)
  /\ Proxied(call, args) \in repertoire
  /\ used' = used + 1
  /\ IF CanProxy(call, args)
     THEN LET msg == proxyMsg(call, args)
              h == Len(handles) + 1
          IN /\ handles' = Append(handles, NewHandle)
             /\ results' = [results EXCEPT ![i] = store(@, msg, h)]
             /\ queue' = Append(queue, <<"qiwiscall", NameOf(i), msg>>)
             /\ last' = [op |-> "proxy", inst |-> i, call |-> call, args |-> args,
                         msg |-> msg, handle |-> h,
                         exc |-> "", emitted |-> <<msg>>,
                         duplicate |-> HasKey(results[i], msg),
                         previous |-> IF HasKey(results[i], msg)
                                      THEN Get(results[i], msg) ELSE 0]
     ELSE /\ UNCHANGED <<handles, results, queue>>
          /\ last' = [op |-> "proxy", inst |-> i, call |-> call, args |-> args,
                      msg |-> Txt(""), handle |-> 0,
                      exc |-> "TypeError", emitted |-> <<>>,
                      duplicate |-> FALSE, previous |-> 0]
  /\ UNCHANGED <<q, dialogs, inbox, repertoire, bus, swift, sent>>

\* app.qiwiscallRequested.emit(msg) in the live app object i.
RawRequest(i, msg) ==
  /\ used < MaxEmits
  /\ Live(i)
  /\ Raw(msg) \in repertoire
  /\ used' = used + 1
  /\ queue' = Append(queue, <<"qiwiscall", NameOf(i), msg>>)
  /\ last' = [op |-> "raw", inst |-> i, msg |-> msg]
  /\ UNCHANGED <<q, dialogs, results, handles, inbox, repertoire, bus, swift, sent>>

\* An emit that posts the event before the events already posted:
\* C19_Ordering tells it from broadcastRequested.
broadcastRequestedFront(events, boxes, channelName, msg) ==
  [queue |-> <<<<"broadcast", channelName, msg>>>> \o events, inbox |-> boxes]

\* An emit over a direct connection: _broadcast and the subscribers'
\* handlers run inside the emit.  C20_Deferred tells it from
\* broadcastRequested.
broadcastRequestedDirect(events, boxes, channelName, msg) ==
  LET subs == IF HasKey(q.subscribers, channelName)
              THEN {n \in Get(q.subscribers, channelName) : HasKey(q.apps, n)}
              ELSE {}
  IN [queue |-> events,
      inbox |-> AsSeq([i \in DOMAIN boxes |->
                         IF IsJsonText(msg) /\ \E n \in subs : Get(q.apps, n) = i
                         THEN Append(boxes[i], <<channelName, JsonLoads(msg)>>)
                         ELSE boxes[i]])]

\* self.broadcastRequested.emit(channelName, msg), connected to
\* Qiwis._broadcast with Qt.QueuedConnection: the call is posted as an
\* event behind the events already posted, and no slot runs.  Given the
\* posted events and the inboxes, yields both after the emit.
broadcastRequested(events, boxes, channelName, msg) ==
  [queue |-> Append(events, <<"broadcast", channelName, msg>>), inbox |-> boxes]

\* BaseApp.broadcast(channelName, content) in the live app object i.
AppBroadcast(i, channelName, content) ==
  /\ used < MaxEmits
  /\ Live(i)
  /\ Broadcast(channelName, content) \in repertoire
  /\ used' = used + 1
  /\ IF Jsonable(content)
     THEN LET e == broadcastRequested(queue, inbox, channelName, JsonDumps(content))
          IN /\ queue' = e.queue
             /\ inbox' = e.inbox
             /\ sent' = Append(sent, <<i, channelName, JsonDumps(content)>>)
             /\ last' = [op |-> "broadcast", inst |-> i, channel |-> channelName,
                         content |-> content, exc |-> "",
                         emitted |-> <<JsonDumps(content)>>]
     ELSE /\ UNCHANGED <<queue, inbox, sent>>
          /\ last' = [op |-> "broadcast", inst |-> i, channel |-> channelName,
                      content |-> content,
                      exc |-> IF DumpsError(content) = "TypeError" THEN ""
                              ELSE DumpsError(content),
                      emitted |-> <<>>]
  /\ UNCHANGED <<q, dialogs, results, handles, repertoire, bus, swift>>

\* self.broadcastRequested.emit(channelName, msg) in the live app object i,
\* with a text the app wrote itself (examples/numgen.py, line 153).
EmitBroadcast(i, channelName, msg) ==
  /\ used < MaxEmits
  /\ Live(i)
  /\ Emit(channelName, msg) \in repertoire
  /\ used' = used + 1
  /\ \E e \in {broadcastRequested(queue, inbox, channelName, msg)} :
       /\ queue' = e.queue
       /\ inbox' = e.inbox
  /\ sent' = Append(sent, <<i, channelName, msg>>)
  /\ last' = [op |-> "emit", inst |-> i, channel |-> channelName,
              emitted |-> <<msg>>]
  /\ UNCHANGED <<q, dialogs, results, handles, repertoire, bus, swift>>


\* ------------------------------------------------------------ event loop

\* The names of order up to the first that is not a key of _apps.
RECURSIVE LivePrefix(_, _)
LivePrefix(order, apps) ==
  IF order = <<>> \/ ~HasKey(apps, Head(order)) THEN <<>>
  ELSE <<Head(order)>> \o LivePrefix(Tail(order), apps)

\* BaseApp._receivedMessage(channelName, msg) in the app objects of the
\* names given: receivedSlot gets the decoded content, or the message is
\* dropped when it is no JSON document.
receivedMessage(boxes, apps, names, channelName, msg) ==
  AsSeq([i \in DOMAIN boxes |->
           IF IsJsonText(msg) /\ \E k \in DOMAIN names : Get(apps, names[k]) = i
           THEN Append(boxes[i], <<channelName, JsonLoads(msg)>>)
           ELSE boxes[i]])

\* What the receivedSlot of the app objects invoked can do while it runs:
\* nothing (<<>>), or, in one of them, a broadcast of the repertoire:
\* <<instance, channel, content>>.
Echoes(apps, invoked, msg) ==
  {<<>>} \cup
  IF used < MaxEmits /\ IsJsonText(msg)
  THEN {<<Get(apps, invoked[k]), r[2], r[3]>> :
          k \in DOMAIN invoked,
          r \in {e \in repertoire : e[1] = "echo" /\ Jsonable(e[3])}}
  ELSE {}

\* Qiwis._broadcast(channelName, msg), run for the oldest posted event.
\* The subscriber set is iterated in some order; the look-up of a name that
\* is no key of _apps raises KeyError and ends the iteration.  The apps
\* invoked run their receivedSlot inside the call (a direct connection).
DispatchBroadcast ==
  /\ queue # <<>>
  /\ Head(queue)[1] = "broadcast"
  /\ LET channelName == Head(queue)[2]
         msg == Head(queue)[3]
         q1 == Touch(q, channelName)
         subs == Get(q1.subscribers, channelName)
     IN \E order \in Orders(subs) :
          LET invoked == LivePrefix(order, q1.apps)
              boxes == receivedMessage(inbox, q1.apps, invoked, channelName, msg)
          IN \E echo \in Echoes(q1.apps, invoked, msg) :
               /\ q' = q1
               /\ IF echo = <<>>
                  THEN /\ queue' = Tail(queue)
                       /\ inbox' = boxes
                       /\ UNCHANGED <<used, sent>>
                  ELSE LET e == broadcastRequested(Tail(queue), boxes, echo[2],
                                                   JsonDumps(echo[3]))
                       IN /\ queue' = e.queue
                          /\ inbox' = e.inbox
                          /\ used' = used + 1
                          /\ sent' = Append(sent, <<echo[1], echo[2],
                                                    JsonDumps(echo[3])>>)
               /\ last' = [op |-> "_broadcast", channel |-> channelName,
                           msg |-> msg, subscribers |-> subs, invoked |-> invoked,
                           exc |-> IF Len(invoked) < Len(order) THEN "KeyError"
                                   ELSE "",
                           echo |-> echo, before |-> q, boxes |-> inbox]
  /\ UNCHANGED <<dialogs, results, handles, repertoire, bus, swift>>

\* The end of Qiwis._qiwiscall(sender, msg): the result is packed and
\* emitted on the app object now registered under the sender's name, whose
\* _receivedQiwiscallResult runs at once (a direct connection).
Complete(sender, msg, call, args, out, asked, reply, parsed, invoked) ==
  \* (fin and rec are bound as values, so that each is computed once)
  \E fin \in {qiwiscallFinish(sender, out)}, tables \in {Grown(results, Len(out.q.objects))} :
  \E rec \in {IF fin.emitted
              THEN receivedQiwiscallResult(tables[fin.target], handles, msg,
                                           fin.result)
              ELSE [r |-> [results |-> <<>>, handles |-> handles, found |-> FALSE],
                    exc |-> "", updated |-> FALSE]} :
     /\ q' = out.q
     /\ inbox' = Grown(inbox, Len(out.q.objects))
     /\ IF fin.emitted
        THEN /\ results' = [tables EXCEPT ![fin.target] = rec.r.results]
             /\ handles' = rec.r.handles
        ELSE /\ results' = tables
             /\ handles' = handles
     /\ last' = [op |-> "_qiwiscall", sender |-> sender, msg |-> msg,
                 call |-> call, args |-> args,
                 asked |-> asked, reply |-> reply, parsed |-> parsed,
                 invoked |-> invoked, exc |-> out.exc, value |-> out.value,
                 frames |-> out.frames,
                 escaped |-> fin.escaped, emitted |-> fin.emitted,
                 target |-> fin.target, result |-> fin.result,
                 pending |-> IF HasKey(q.apps, sender)
                                /\ HasKey(results[Get(q.apps, sender)], msg)
                             THEN Get(results[Get(q.apps, sender)], msg) ELSE 0,
                 resolved |-> IF fin.emitted /\ rec.r.found
                              THEN Get(tables[fin.target], msg) ELSE 0,
                 before |-> q]

\* Qiwis._qiwiscall(sender, msg), run for the oldest posted event, up to
\* QMessageBox.warning, or to its end when _handleQiwiscall raises before.
DispatchQiwiscall ==
  /\ queue # <<>>
  /\ Head(queue)[1] = "qiwiscall"
  /\ \E sender \in {Head(queue)[2]}, msg \in {Head(queue)[3]} :
     \E start \in {handleQiwiscallStart(msg)} :
        IF start.exc # ""
        THEN /\ Complete(sender, msg, start.call, start.args, Raise(q, start.exc),
                      FALSE, "", start.parsed, FALSE)
             /\ UNCHANGED dialogs
        ELSE /\ Len(dialogs) < MaxNest
             /\ dialogs' = Append(dialogs, [sender |-> sender, msg |-> msg,
                                            call |-> start.call, args |-> start.args])
             /\ last' = [op |-> "warning", sender |-> sender, msg |-> msg,
                         call |-> start.call, args |-> start.args]
             /\ UNCHANGED <<q, results, handles, inbox>>
  /\ queue' = Tail(queue)
  /\ UNCHANGED <<repertoire, bus, swift, used, sent>>

Top == dialogs[Len(dialogs)]

\* The operator presses Ok in the innermost dialog: call(**args), line 447.
ReplyOk ==
  /\ dialogs # <<>>
  /\ \E out \in Invocations(q, Top.call, Top.args) :
     /\ Len(out.q.objects) <= MaxInst
     /\ Complete(Top.sender, Top.msg, Top.call, Top.args, out, TRUE, "Ok", TRUE, TRUE)
  /\ dialogs' = SubSeq(dialogs, 1, Len(dialogs) - 1)
  /\ UNCHANGED <<queue, repertoire, bus, swift, used, sent>>

\* The operator presses Cancel (or closes) the innermost dialog: line 448.
ReplyCancel ==
  /\ dialogs # <<>>
  /\ Complete(Top.sender, Top.msg, Top.call, Top.args,
              Raise(q, RuntimeErrorRejected),
              TRUE, "Cancel", TRUE, FALSE)
  /\ dialogs' = SubSeq(dialogs, 1, Len(dialogs) - 1)
  /\ UNCHANGED <<queue, repertoire, bus, swift, used, sent>>

Next ==
  \/ \E i \in DOMAIN q.objects, c \in {r \in repertoire : r[1] = "proxy"} :
        ProxyCall(i, c[2], c[3])
  \/ \E i \in DOMAIN q.objects, c \in {r \in repertoire : r[1] = "raw"} :
        RawRequest(i, c[2])
  \/ \E i \in DOMAIN q.objects, c \in {r \in repertoire : r[1] = "broadcast"} :
        AppBroadcast(i, c[2], c[3])
  \/ \E i \in DOMAIN q.objects, c \in {r \in repertoire : r[1] = "emit"} :
        EmitBroadcast(i, c[2], c[3])
  \/ DispatchBroadcast
  \/ DispatchQiwiscall
  \/ ReplyOk
  \/ ReplyCancel

Spec == Init /\ [][Next]_vars

\* The event loop keeps taking the oldest posted event and the operator
\* keeps answering the innermost dialog.
TakeEvent == queue # <<>> /\ queue' = Tail(queue)
AnswerDialog == dialogs # <<>> /\ dialogs' = SubSeq(dialogs, 1, Len(dialogs) - 1)
FairSpec == Spec /\ WF_queue(TakeEvent) /\ WF_dialogs(AnswerDialog)

\* ----------------------------------------------------------------- claims

\* C1. Broadcast fan-out: when Qiwis._broadcast(channel, msg) runs, every
\* app in the channel's subscriber set at that moment has its received
\* handler invoked exactly once, and no app outside the set is invoked.
\* Violated: subscribe accepts a name that is no app, and the look-up of
\* that name ends the iteration before the apps after it are reached.
C1_FanOut ==
  last.op = "_broadcast" =>
    /\ \A n \in last.subscribers :
         HasKey(last.before.apps, n) =>
           Cardinality({k \in DOMAIN last.invoked : last.invoked[k] = n}) = 1
    /\ Range(last.invoked) \subseteq last.subscribers

\* C2. Call round-trip: once the operator has confirmed a call that an app
\* made through its proxy and the host method has returned, the handle of
\* the call eventually is done and successful.
\* Violated: the set that subscriberNames returns cannot be encoded, and
\* the TypeError leaves _qiwiscall before anything is emitted.
C2_RoundTrip ==
  \A h \in 1..MaxEmits :
    (last.op = "_qiwiscall" /\ last.reply = "Ok" /\ last.exc = "" /\ last.pending = h)
      ~> (/\ h \in DOMAIN handles
          /\ handles[h].done = Bool(TRUE)
          /\ handles[h].success = Bool(TRUE))

\* C3. Private-call rejection: for a request whose call name starts with an
\* underscore the method is never invoked, its arguments are never
\* resolved, the operator is never asked, the handling fails with the
\* ValueError and the request resolves with success=false.
\* Violated in its last part: when the sender was destroyed meanwhile, the
\* KeyError of self._apps[sender] leaves _qiwiscall and nothing resolves.
C3_PrivateRejected ==
  LET private(msg) ==
        /\ LoadsError("QiwiscallInfo", StrOf(msg)) = ""
        /\ LET c == Field(loads("QiwiscallInfo", StrOf(msg)), "call")
           IN IsPlainStr(c) /\ StartsWithUnderscore(PlainOf(c))
  IN /\ last.op = "warning" => ~private(last.msg)
     /\ (last.op = "_qiwiscall" /\ private(last.msg)) =>
          /\ ~last.invoked
          /\ ~last.parsed
          /\ ~last.asked
          /\ last.exc = ValueErrorPrivate
          /\ last.emitted
          /\ Field(loads("QiwiscallResult", StrOf(last.result)), "success") = Bool(FALSE)

\* C4. Confirmation is the authorization boundary: when the operator
\* rejects, the method is not invoked, the registry and the bus are as they
\* were, the handling fails with the RuntimeError and the request resolves
\* with success=false.
\* Violated in its last part: when the sender was destroyed meanwhile, the
\* KeyError of self._apps[sender] leaves _qiwiscall and nothing resolves.
C4_RejectionIsBoundary ==
  (last.op = "_qiwiscall" /\ last.asked /\ last.reply = "Cancel") =>
    /\ ~last.invoked
    /\ q = last.before
    /\ last.exc = RuntimeErrorRejected
    /\ last.emitted
    /\ Field(loads("QiwiscallResult", StrOf(last.result)), "success") = Bool(FALSE)

\* C5. Outcome packaging: every result _qiwiscall emits has done=true; it
\* has success=true, error=null and the method's return value (its dumps
\* when it is a Serializable) exactly when the handling raised nothing, and
\* success=false, value=null and the repr of the exception otherwise; it is
\* addressed by the request string, so that the handle the sender holds
\* under that string is the one resolved.
C5_Packaging ==
  (last.op = "_qiwiscall" /\ last.emitted) =>
    /\ last.result =
         JsonDumps(Dict(
           << <<"done", Bool(TRUE)>>,
              <<"success", Bool(last.exc = "")>>,
              <<"value", IF last.exc # "" THEN None
                         ELSE IF IsSerializable(last.value)
                              THEN StrOf(JsonDumps(AsDict(last.value)))
                              ELSE last.value>>,
              <<"error", IF last.exc = "" THEN None ELSE Str(last.exc)>> >>))
    /\ (/\ HasKey(last.before.apps, last.sender)
        /\ Get(last.before.apps, last.sender) = last.target)
         => last.resolved = last.pending
\* A result of a call that returned a value, and one of a call that raised.
C5_Witness ==
  /\ last.op = "_qiwiscall"
  /\ last.emitted
  /\ last.exc = ""
  /\ last.value = Bool(TRUE)
  /\ last.resolved # 0

\* C6. Failures never propagate: for every request of a sender that is
\* registered, whatever it contains and whatever the method raises or
\* returns, _qiwiscall raises nothing and delivers one result.
\* Violated: the set that subscriberNames returns makes dumps(result) raise
\* a TypeError outside the try.
C6_NeverPropagates ==
  (/\ last.op = "_qiwiscall"
   /\ HasKey(last.before.apps, last.sender)
   /\ HasKey(q.apps, last.sender))
    => (last.escaped = "" /\ last.emitted)

\* C7. Cancellation safety: when the sender is no longer in the registry
\* at the moment its result is delivered, _qiwiscall raises nothing.
\* Violated: self._apps[sender] raises KeyError, also for the call by which
\* an app destroys itself.
C7_CancellationSafe ==
  (last.op = "_qiwiscall" /\ ~HasKey(q.apps, last.sender)) => last.escaped = ""

\* C8. A proxy call never blocks: it creates a fresh handle with done=false
\* and success=false, stores it in the pending table under the serialized
\* envelope, emits exactly one request carrying that string (posted, not
\* yet handled) and the handle is still done=false when the call returns.
C8_ProxyNeverBlocks ==
  last.op = "proxy" =>
    /\ last.exc = ""
    /\ last.handle = Len(handles)
    /\ \A i \in DOMAIN results : \A k \in DOMAIN results[i] :
         results[i][k][2] = last.handle => (i = last.inst /\ results[i][k][1] = last.msg)
    /\ handles[last.handle] =
         [done |-> Bool(FALSE), success |-> Bool(FALSE), value |-> None, error |-> None]
    /\ HasKey(results[last.inst], last.msg)
    /\ Get(results[last.inst], last.msg) = last.handle
    /\ last.msg =
         JsonDumps(Dict(
           << <<"call", Str(last.call)>>,
              <<"args", Dict([i \in DOMAIN last.args |->
                                <<last.args[i][1],
                                  IF IsSerializable(last.args[i][2])
                                  THEN StrOf(JsonDumps(AsDict(last.args[i][2])))
                                  ELSE last.args[i][2]>>])>> >>))
    /\ last.emitted = <<last.msg>>
    /\ queue # <<>>
    /\ queue[Len(queue)] = <<"qiwiscall", q.objects[last.inst], last.msg>>
\* A proxy call with a Serializable argument has returned.
C8_Witness ==
  /\ last.op = "proxy"
  /\ last.call = "createApp"
  /\ last.handle # 0
  /\ handles[last.handle].done = Bool(FALSE)

\* C9. Duplicate in-flight requests: a second request with the same
\* envelope is emitted too and takes the place of the first in the pending
\* table, and a handle that is in no pending table is never resolved: of
\* the two only the newer can be.
C9_Duplicate ==
  [][LET InTable(tbls, h) ==
           \E i \in DOMAIN tbls : \E k \in DOMAIN tbls[i] : tbls[i][k][2] = h
     IN /\ (last'.op = "proxy" /\ last'.duplicate) =>
             /\ queue' = Append(queue, <<"qiwiscall", q.objects[last'.inst], last'.msg>>)
             /\ last'.previous # last'.handle
             /\ Get(results'[last'.inst], last'.msg) = last'.handle
             /\ ~InTable(results', last'.previous)
        /\ \A h \in DOMAIN handles : ~InTable(results, h) => handles'[h] = handles[h]
    ]_vars
\* The response to a duplicated request has resolved the newer handle and
\* left the older one pending.
C9_Witness ==
  /\ Len(handles) = 2
  /\ last.op = "_qiwiscall"
  /\ last.resolved = 2
  /\ handles[2].done = Bool(TRUE)
  /\ handles[1].done = Bool(FALSE)
  /\ \A i \in DOMAIN results : results[i] = <<>>
  /\ last.sender = q.objects[last.target]
  /\ \E k \in DOMAIN dialogs \cup {0} :
       /\ k # 0 => dialogs[k].msg = last.msg /\ dialogs[k].sender = last.sender
       /\ k = 0 => (queue # <<>> /\ Head(queue) = <<"qiwiscall", last.sender, last.msg>>)

\* C10. update_result(request, result, discard): for a request in the
\* pending table the four fields of result are copied into the handle that
\* is there, which no other handle notices, and the entry is removed
\* exactly when discard is true; for a request that is absent neither a
\* handle nor the table changes.
C10_UpdateResult ==
  \A i \in DOMAIN results, discard \in BOOLEAN :
    \A result \in {QiwiscallResult(TRUE, TRUE, Bool(TRUE), None),
                   QiwiscallResult(TRUE, FALSE, None, Str("KeyError"))} :
      \A request \in Keys(results[i]) \cup {Txt("absent")} :
        LET r == update_result(results[i], handles, request, result, discard) IN
        IF HasKey(results[i], request)
        THEN LET h == Get(results[i], request) IN
             /\ DOMAIN r.handles = DOMAIN handles
             /\ r.handles[h] = [done |-> Field(result, "done"),
                                success |-> Field(result, "success"),
                                value |-> Field(result, "value"),
                                error |-> Field(result, "error")]
             /\ \A k \in DOMAIN handles \ {h} : r.handles[k] = handles[k]
             /\ r.results = IF discard
                            THEN SelectSeq(results[i], LAMBDA p : p[1] # request)
                            ELSE results[i]
        ELSE r.results = results[i] /\ r.handles = handles
\* _receivedQiwiscallResult has called update_result for a pending request
\* and the handle shows the failure it was given.
C10_Witness ==
  /\ last.op = "_qiwiscall"
  /\ last.resolved # 0
  /\ handles[last.resolved].done = Bool(TRUE)
  /\ handles[last.resolved].success = Bool(FALSE)
  /\ handles[last.resolved].error # None

\* C11. createApp(name, info) on a name that is a key of _apps, without
\* replace, fails: the call raises.
\* Violated: line 269-272 logs "already exists" and returns None; nothing
\* is raised and the caller gets a success result.
C11_DuplicateName ==
  (/\ last.op = "_qiwiscall" /\ last.invoked /\ last.call = "createApp"
   /\ HasKey(last.args, "name")
   /\ HasKey(last.before.apps, PlainOf(Get(last.args, "name")))
   /\ ~(HasKey(last.args, "replace") /\ Truthy(Get(last.args, "replace"))))
  => last.exc # ""

\* C12. destroyApp(name) on a key of _apps returns normally; afterwards
\* name is no key of _apps, is in no subscriber set and has no entry in
\* _wrapperWidgets, while the other apps, the other names in the subscriber
\* sets, and the other apps' wrapper lists and wrapper widgets are as
\* before.
C12_DestroyApp ==
  (/\ last.op = "_qiwiscall" /\ last.invoked /\ last.call = "destroyApp"
   /\ HasKey(last.before.apps, PlainOf(Get(last.args, "name"))))
  => LET name == PlainOf(Get(last.args, "name"))
         b == last.before
         inst == Get(b.apps, name)
     IN /\ last.exc = ""
        /\ ~HasKey(q.apps, name)
        /\ \A i \in DOMAIN q.subscribers : name \notin q.subscribers[i][2]
        /\ name \notin DOMAIN q.wrapperWidgets
        /\ q.apps = Del(b.apps, name)
        /\ Len(q.subscribers) = Len(b.subscribers)
        /\ \A i \in DOMAIN q.subscribers :
             /\ q.subscribers[i][1] = b.subscribers[i][1]
             /\ q.subscribers[i][2] = b.subscribers[i][2] \ {name}
        /\ DOMAIN q.wrapperWidgets = DOMAIN b.wrapperWidgets \ {name}
        /\ \A n \in DOMAIN q.wrapperWidgets :
             q.wrapperWidgets[n] = b.wrapperWidgets[n]
        /\ {w \in q.widgets : w[1] # inst} = {w \in b.widgets : w[1] # inst}

\* destroyApp has closed a live app that was in no subscriber set, next to
\* an app that is in one.
C12_Witness ==
  /\ last.op = "_qiwiscall" /\ last.invoked /\ last.call = "destroyApp"
  /\ last.exc = ""
  /\ HasKey(last.before.apps, PlainOf(Get(last.args, "name")))
  /\ \A i \in DOMAIN last.before.subscribers :
       PlainOf(Get(last.args, "name")) \notin last.before.subscribers[i][2]
  /\ \E i \in DOMAIN q.subscribers : q.subscribers[i][2] # {}
  /\ q.apps # <<>>

\* C13. destroyApp(name) on a name that is no key of _apps raises and
\* leaves _apps, the subscriber sets, _wrapperWidgets and the main window's
\* wrapper widgets as they were.
\* Violated: lines 304-305 discard the name from every subscriber set
\* before line 306 raises KeyError, so a name that subscribe accepted
\* without an app is unsubscribed by the failing call.
C13_DestroyUnknown ==
  (/\ last.op = "_qiwiscall" /\ last.invoked /\ last.call = "destroyApp"
   /\ ~HasKey(last.before.apps, PlainOf(Get(last.args, "name"))))
  => /\ last.exc # ""
     /\ q = last.before

\* C14. destroyApp(name) on a key of _apps removes every wrapper widget
\* of _wrapperWidgets[name] from the main window.
\* Violated: the loop of lines 300-302 iterates the list removeFrame
\* removes from, so every second wrapper widget is skipped and stays in
\* the main window when line 303 deletes the entry.
C14_AllFramesRemoved ==
  (/\ last.op = "_qiwiscall" /\ last.invoked /\ last.call = "destroyApp"
   /\ HasKey(last.before.apps, PlainOf(Get(last.args, "name"))))
  => LET name == PlainOf(Get(last.args, "name"))
         wrapperWidgets == last.before.wrapperWidgets
     IN name \in DOMAIN wrapperWidgets =>
          \A w \in Range(wrapperWidgets[name]) : w \notin q.widgets

\* C15. updateFrames(name) on a key of _apps returns normally and leaves
\* _wrapperWidgets[name] and the app's wrapper widgets in the main window
\* equal to the set frames() returned, with the wrappers of the frames
\* that stay in the order they were in.
\* Violated: line 316 reads self.appInfos[name], the mapping the
\* constructor was given, so the call raises KeyError for an app that
\* createApp made under a name that is no key of that mapping.
C15_UpdateFrames ==
  (/\ last.op = "_qiwiscall" /\ last.invoked /\ last.call = "updateFrames"
   /\ HasKey(last.before.apps, PlainOf(Get(last.args, "name"))))
  => LET name == PlainOf(Get(last.args, "name"))
         b == TouchWidgets(last.before, name)
         inst == Get(b.apps, name)
         kept(w) == w \in last.frames /\ w \in Range(b.wrapperWidgets[name])
     IN /\ last.exc = ""
        /\ name \in DOMAIN q.wrapperWidgets
        /\ Range(q.wrapperWidgets[name]) = last.frames
        /\ Len(q.wrapperWidgets[name]) = Cardinality(last.frames)
        /\ {w \in q.widgets : w[1] = inst}
             = last.frames \cup ({w \in b.widgets : w[1] = inst}
                                   \ Range(b.wrapperWidgets[name]))
        /\ SelectSeq(q.wrapperWidgets[name], kept)
             = SelectSeq(b.wrapperWidgets[name], kept)

\* C16. createApp(name, info) on a name that is no key of _apps, when it
\* returns normally, makes name a key of _apps (whatever info.show is),
\* puts name in the subscriber set of exactly the channels of info.channel,
\* and leaves in _wrapperWidgets[name] and in the main window one wrapper
\* widget for each frame of the new app object.
\* Violated: subscribe accepts a name that is no app, and createApp does
\* not clear what the name is subscribed to, so an app made under that name
\* is a subscriber of a channel its info does not list.
C16_CreateApp ==
  (/\ last.op = "_qiwiscall" /\ last.invoked /\ last.call = "createApp"
   /\ last.exc = ""
   /\ ~HasKey(last.before.apps, PlainOf(Get(last.args, "name"))))
  => LET name == PlainOf(Get(last.args, "name"))
         info == Get(last.args, "info")
         channels == {PlainOf(c) : c \in Range(Field(info, "channel")[2])}
         frames == ClassFrames(PlainOf(Field(info, "module")),
                               PlainOf(Field(info, "cls")))
         wrappers == IF name \in DOMAIN q.wrapperWidgets
                     THEN q.wrapperWidgets[name] ELSE <<>>
     IN /\ HasKey(q.apps, name)
        /\ Get(q.apps, name) = Len(last.before.objects) + 1
        /\ \A c \in channels :
             HasKey(q.subscribers, c) /\ name \in Get(q.subscribers, c)
        /\ \A i \in DOMAIN q.subscribers :
             name \in q.subscribers[i][2] => q.subscribers[i][1] \in channels
        /\ Len(wrappers) = frames
        /\ Range(wrappers) = {<<Get(q.apps, name), k>> : k \in 1..frames}
        /\ Range(wrappers) \subseteq q.widgets

\* C17. In every reachable state, for the names app1 and app2 (an app or
\* not) and the channels ch1 and ch3 (known or not), subscribe(a, c) twice leaves the Qiwis
\* object as subscribe(a, c) once leaves it, and neither call raises; and
\* a subscribe call that finds the name in the channel's set changes
\* nothing and returns normally.
C17_SubscribeIdempotent ==
  /\ \A a \in {"app1", "app2"}, c \in {"ch1", "ch3"} :
       LET once == subscribe(q, a, c)
           twice == subscribe(once.q, a, c)
       IN /\ once.exc = "" /\ twice.exc = ""
          /\ twice.q = once.q
          /\ a \in Get(once.q.subscribers, c)
  /\ (/\ last.op = "_qiwiscall" /\ last.invoked /\ last.call = "subscribe"
      /\ HasKey(last.args, "app") /\ HasKey(last.args, "channel")
      /\ HasKey(last.before.subscribers, PlainOf(Get(last.args, "channel")))
      /\ PlainOf(Get(last.args, "app"))
           \in Get(last.before.subscribers, PlainOf(Get(last.args, "channel"))))
     => last.exc = "" /\ q = last.before

\* The same subscribe call has run twice: the second found the name that
\* the first had put in the set.
C17_Witness ==
  /\ last.op = "_qiwiscall" /\ last.invoked /\ last.call = "subscribe"
  /\ HasKey(last.args, "app") /\ HasKey(last.args, "channel")
  /\ last.exc = ""
  /\ used = 2 /\ queue = <<>> /\ dialogs = <<>>
  /\ \A i \in DOMAIN handles : handles[i].done = Bool(TRUE)
  /\ Len(handles) = 2
  /\ HasKey(last.before.subscribers, PlainOf(Get(last.args, "channel")))
  /\ PlainOf(Get(last.args, "app"))
       \in Get(last.before.subscribers, PlainOf(Get(last.args, "channel")))
  /\ ~HasKey(q.apps, PlainOf(Get(last.args, "app")))

\* C18. In every reachable state, for the names app1 and app2 and the
\* channels ch1 and ch3, unsubscribe(a, c) raises nothing; when a is in the subscriber set of c
\* it returns True and the set of c loses a and nothing else; when a is
\* not, it returns False; in both cases the subscriber set of every other
\* channel, _apps and the frames are as before (the subscriber set of a
\* channel that is no key is the empty set).  And every unsubscribe call
\* made through the gateway did so.
C18_Unsubscribe ==
  LET Subs(qq, c) == IF HasKey(qq.subscribers, c) THEN Get(qq.subscribers, c)
                     ELSE {}
      Channels == {"ch1", "ch2", "ch3"}
      Holds(b, a, c, r) ==
        /\ r.exc = ""
        /\ r.value = Bool(a \in Subs(b, c))
        /\ Subs(r.q, c) = Subs(b, c) \ {a}
        /\ \A d \in Channels \ {c} : Subs(r.q, d) = Subs(b, d)
        /\ Keys(r.q.subscribers) \subseteq Channels
        /\ r.q.apps = b.apps /\ r.q.wrapperWidgets = b.wrapperWidgets
        /\ r.q.widgets = b.widgets
  IN /\ \A a \in {"app1", "app2"}, c \in {"ch1", "ch3"} :
          Holds(q, a, c, unsubscribe(q, a, c))
     /\ (/\ last.op = "_qiwiscall" /\ last.invoked /\ last.call = "unsubscribe"
         /\ HasKey(last.args, "app") /\ HasKey(last.args, "channel"))
        => Holds(last.before, PlainOf(Get(last.args, "app")),
                 PlainOf(Get(last.args, "channel")),
                 [q |-> q, value |-> last.value, exc |-> last.exc])

\* unsubscribe has returned True to a caller, and the same call has then
\* returned False.
C18_Witness ==
  /\ last.op = "_qiwiscall" /\ last.invoked /\ last.call = "unsubscribe"
  /\ HasKey(last.args, "app") /\ HasKey(last.args, "channel")
  /\ last.exc = "" /\ last.value = Bool(FALSE)
  /\ q = last.before
  /\ \E h \in DOMAIN handles :
       handles[h].done = Bool(TRUE) /\ handles[h].value = Bool(TRUE)

\* C19. What an app object has received on a channel is, in order, part
\* of what was emitted to that channel, each emission at most once: the
\* messages one app broadcasts to a channel reach every app in the order
\* they were sent (here for all senders together, so for each of them).
C19_Ordering ==
  \A i \in DOMAIN inbox, c \in {"ch1", "ch2"} :
    LET got == SelectSeq(inbox[i], LAMBDA m : m[1] = c)
        out == SelectSeq(sent, LAMBDA e : e[2] = c)
    IN \E f \in [DOMAIN got -> DOMAIN out] :
         /\ \A j, k \in DOMAIN got : j < k => f[j] < f[k]
         /\ \A k \in DOMAIN got :
              /\ IsJsonText(out[f[k]][3])
              /\ got[k][2] = JsonLoads(out[f[k]][3])

\* One app object has broadcast two different messages to a channel, and
\* a subscriber of the channel has received both.
C19_Witness ==
  /\ Len(sent) = 2
  /\ sent[1][1] = sent[2][1] /\ sent[1][2] = sent[2][2]
  /\ sent[1][3] # sent[2][3]
  /\ IsJsonText(sent[1][3]) /\ IsJsonText(sent[2][3])
  /\ \E i \in DOMAIN inbox :
       inbox[i] = << <<sent[1][2], JsonLoads(sent[1][3])>>,
                     <<sent[2][2], JsonLoads(sent[2][3])>> >>

\* C20. A step in which an app object calls broadcast runs no receive
\* handler for the message broadcast: the message is left as the newest
\* posted event.  When the call is made by an app's code outside a
\* handler, nothing is received in the step; when it is made inside
\* receivedSlot, during Qiwis._broadcast, every app object receives at most
\* the one message being delivered, and the calling one exactly that.
C20_Deferred ==
  [][/\ (last'.op = "broadcast" /\ last'.emitted # <<>>) =>
          /\ inbox' = inbox
          /\ queue' = Append(queue, <<"broadcast", last'.channel,
                                      last'.emitted[1]>>)
     /\ (last'.op = "_broadcast" /\ last'.echo # <<>>) =>
          /\ queue' = Append(Tail(queue), <<"broadcast", last'.echo[2],
                                            JsonDumps(last'.echo[3])>>)
          /\ \A i \in DOMAIN inbox :
               \/ inbox'[i] = inbox[i]
               \/ inbox'[i] = Append(inbox[i], <<last'.channel,
                                                 JsonLoads(last'.msg)>>)
          /\ inbox'[last'.echo[1]]
               = Append(inbox[last'.echo[1]],
                        <<last'.channel, JsonLoads(last'.msg)>>)]_vars

\* An app object has broadcast, inside its receivedSlot, to the channel it
\* was receiving from: the message waits as a posted event.
C20_Witness ==
  /\ last.op = "_broadcast" /\ last.echo # <<>>
  /\ last.echo[2] = last.channel
  /\ NameOf(last.echo[1]) \in Range(last.invoked)
  /\ queue # <<>>
  /\ queue[Len(queue)] = <<"broadcast", last.echo[2], JsonDumps(last.echo[3])>>
  /\ Len(inbox[last.echo[1]]) = 1

\* C21. When Qiwis._broadcast runs for a channel whose subscriber set is
\* empty or that is no key of _subscribers, no app is invoked, nothing is
\* raised and the Qiwis object (channelNames() included) is as before.
\* Violated: line 384 reads self._subscribers[channelName] of a
\* defaultdict, so a broadcast to a channel that is no key makes it one,
\* and channelNames() returns one channel more.
C21_NoSubscribers ==
  (last.op = "_broadcast" /\ last.subscribers = {})
  => /\ last.invoked = <<>>
     /\ last.exc = ""
     /\ q = last.before
     /\ channelNames(q).value = channelNames(last.before).value

\* C22. A subscriberNames(channel) or channelNames() call leaves the Qiwis
\* object as it was: a channelNames() after it returns what one before it
\* returned.
\* Violated: line 341 reads self._subscribers[channel] of a defaultdict,
\* so subscriberNames of a channel that is no key makes it one.
C22_ReadOnly ==
  (/\ last.op = "_qiwiscall" /\ last.invoked
   /\ last.call \in {"subscriberNames", "channelNames"})
  => /\ q = last.before
     /\ channelNames(q).value = channelNames(last.before).value

\* C23. The confirmation is asked once for a request, and only for a
\* request whose call name is a str that does not start with "_" and names
\* an attribute of Qiwis, and whose arguments all name parameters of the
\* method and, where the parameter is Serializable, load as its class.  A
\* request that is not such fails without a dialog and without a method
\* invoked; a request that is asked is completed by the answer to its
\* dialog, which is closed then, and a method is invoked only on Ok.
C23_StepOrder ==
  [][LET Resolvable(msg) ==
          /\ LoadsError("QiwiscallInfo", StrOf(msg)) = ""
          /\ LET info == loads("QiwiscallInfo", StrOf(msg))
                 callV == Field(info, "call")
                 argsV == Field(info, "args")
             IN /\ IsPlainStr(callV)
                /\ ~StartsWithUnderscore(PlainOf(callV))
                /\ PlainOf(callV) \in PublicMethods
                /\ IsDict(argsV)
                /\ \A k \in DOMAIN argsV[2] :
                     \E p \in Range(Signature(PlainOf(callV))) :
                       /\ p[1] = argsV[2][k][1]
                       /\ p[2] \in Serializables =>
                            LoadsError(p[2], argsV[2][k][2]) = ""
    IN /\ last'.op = "warning" =>
            /\ queue # <<>> /\ Head(queue) = <<"qiwiscall", last'.sender, last'.msg>>
            /\ queue' = Tail(queue)
            /\ Resolvable(last'.msg)
            /\ dialogs' = Append(dialogs, [sender |-> last'.sender,
                                           msg |-> last'.msg,
                                           call |-> last'.call,
                                           args |-> last'.args])
            /\ q' = q
       /\ (last'.op = "_qiwiscall" /\ ~last'.asked) =>
            /\ queue # <<>> /\ Head(queue) = <<"qiwiscall", last'.sender, last'.msg>>
            /\ queue' = Tail(queue)
            /\ ~Resolvable(last'.msg)
            /\ dialogs' = dialogs
            /\ ~last'.invoked /\ last'.exc # "" /\ q' = q
       /\ (last'.op = "_qiwiscall" /\ last'.asked) =>
            /\ dialogs # <<>>
            /\ Top.sender = last'.sender /\ Top.msg = last'.msg
            /\ dialogs' = SubSeq(dialogs, 1, Len(dialogs) - 1)
            /\ queue' = queue
            /\ last'.invoked = (last'.reply = "Ok")
            /\ ~last'.invoked => q' = q
       /\ q' # q => last'.op \in {"_qiwiscall", "_broadcast"}]_vars

\* A request naming a method Qiwis does not have has failed with no dialog
\* asked and no method invoked.
C23_Witness ==
  /\ last.op = "_qiwiscall" /\ ~last.asked /\ ~last.invoked
  /\ last.exc = "AttributeError"
  /\ q = last.before

\* ------------------------------------- the app under arbitrary responses

\* The messages a qiwiscallReturned signal may carry: Call Results (a
\* success, a failure, one that is not done), a text that is no JSON
\* document, and JSON documents that are no Call Result (an array, an
\* object that lacks a required field, an object with an unknown field).
ResultMessages ==
  { dumps(QiwiscallResult(TRUE, TRUE, PyInt(1), None)),
    dumps(QiwiscallResult(TRUE, FALSE, None, Str("KeyError"))),
    dumps(QiwiscallResult(FALSE, FALSE, None, None)),
    Txt("{"),
    JsonDumps(List(<<>>)),
    JsonDumps(Dict(<< <<"done", Bool(TRUE)>> >>)),
    JsonDumps(Dict(<< <<"done", Bool(TRUE)>>, <<"success", Bool(TRUE)>>,
                      <<"extra", None>> >>)) }

\* app.qiwiscallReturned.emit(request, msg) reaching the live app object i:
\* the slot BaseApp._receivedQiwiscallResult runs at once.
QiwiscallReturned(i, request, msg) ==
  /\ Live(i)
  /\ \E rec \in {receivedQiwiscallResult(results[i], handles, request, msg)} :
       /\ results' = [results EXCEPT ![i] = rec.r.results]
       /\ handles' = rec.r.handles
       /\ last' = [op |-> "qiwiscallReturned", inst |-> i, request |-> request,
                   msg |-> msg, exc |-> rec.exc, updated |-> rec.updated,
                   found |-> rec.r.found,
                   results |-> results, handles |-> handles]
  /\ UNCHANGED <<q, queue, dialogs, inbox, repertoire, bus, swift, used, sent>>

\* One app, making the requests of FrameRequests.
AppInit == Init /\ Len(q.objects) = 1 /\ repertoire = FrameRequests

AppNext ==
  \/ \E i \in DOMAIN q.objects, c \in {r \in repertoire : r[1] = "proxy"} :
       ProxyCall(i, c[2], c[3])
  \/ \E i \in DOMAIN q.objects, msg \in ResultMessages :
       \E request \in {queue[k][3] : k \in DOMAIN queue} \union {Txt("request")} :
         QiwiscallReturned(i, request, msg)

\* The requests of the apps are left in the queue: the responses come from
\* anywhere, in any order, any number of times.
AppSpec == AppInit /\ [][AppNext]_vars

\* C24. A call-result message that is not a well-formed Call Result (not a
\* JSON document, or not a JSON object with done and success and no field
\* other than done, success, value and error) is dropped: the slot raises
\* nothing, update_result is not called, and the table of the pending
\* requests and every handle are as they were.
C24_MalformedDropped ==
  (/\ last.op = "qiwiscallReturned"
   /\ \/ ~IsJsonText(last.msg)
      \/ ~IsDict(JsonLoads(last.msg))
      \/ ~ {"done", "success"} \subseteq Keys(JsonLoads(last.msg)[2])
      \/ ~ Keys(JsonLoads(last.msg)[2]) \subseteq {"done", "success", "value", "error"})
  => /\ last.exc = ""
     /\ ~last.updated
     /\ results[last.inst] = last.results[last.inst]
     /\ handles = last.handles

\* C25. BaseApp.broadcast emits exactly one broadcast request, carrying the
\* JSON text of the content, when the content can be encoded, and emits
\* nothing and raises nothing when it cannot; BaseApp._receivedMessage
\* calls receivedSlot once with the decoded content when the message is a
\* JSON text and never calls it, and raises nothing, when it is not.
C25_PayloadCoding ==
  /\ last.op = "broadcast" =>
       /\ last.exc = ""
       /\ last.emitted = IF DumpsError(last.content) = ""
                         THEN <<JsonDumps(last.content)>> ELSE <<>>
  /\ last.op = "_broadcast" =>
       \A i \in DOMAIN inbox :
         inbox[i] = IF /\ IsJsonText(last.msg)
                       /\ \E k \in DOMAIN last.invoked :
                            Get(q.apps, last.invoked[k]) = i
                    THEN Append(last.boxes[i], <<last.channel, JsonLoads(last.msg)>>)
                    ELSE last.boxes[i]

\* C26. The arguments the gateway has resolved for a request made through
\* the proxy equal the arguments the app passed: a Serializable argument is
\* rebuilt by loads(type, dumps(v)) equal to v field by field (an AppInfo
\* built with its default fields included), any other argument is the
\* same value.
C26_RoundTrip ==
  last.op = "warning" =>
    \A r \in {p \in repertoire : p[1] = "proxy"} :
      (CanProxy(r[2], r[3]) /\ proxyMsg(r[2], r[3]) = last.msg) =>
        \A k \in DOMAIN r[3] :
          /\ HasKey(last.args, r[3][k][1])
          /\ Get(last.args, r[3][k][1]) = r[3][k][2]

\* C27. A handle is created pending (done = False) and stays as it is until
\* a Call Result arrives for the request it is pending for; it then takes
\* the fields of that result (done = True for every result Qiwis makes,
\* whether success is True or False), and a handle that is done is never
\* changed again, whatever responses arrive later.
C27_Handle ==
  [][/\ \A h \in DOMAIN handles' \ DOMAIN handles : handles'[h] = NewHandle
     /\ \A h \in DOMAIN handles :
          /\ handles[h].done = Bool(TRUE) => handles'[h] = handles[h]
          /\ handles'[h] # handles[h] =>
               /\ last'.op = "qiwiscallReturned"
               /\ HasKey(results[last'.inst], last'.request)
               /\ Get(results[last'.inst], last'.request) = h
               /\ LoadsError("QiwiscallResult", StrOf(last'.msg)) = ""
               /\ \E result \in {loads("QiwiscallResult", StrOf(last'.msg))} :
                    /\ handles'[h].done = Field(result, "done")
                    /\ handles'[h].success = Field(result, "success")]_vars

\* A Call Result has arrived for a request the app made, after the handle
\* of that request was resolved: a handle that was done is still done.
C27_Witness ==
  /\ last.op = "qiwiscallReturned"
  /\ last.updated /\ ~last.found
  /\ \E k \in DOMAIN queue : queue[k][3] = last.request
  /\ \E h \in DOMAIN handles :
       /\ last.handles[h].done = Bool(TRUE)
       /\ handles[h].done = Bool(TRUE)

\* ------------------------------------------------- the legacy bus runs

\* The state of the qiwis program, which a Bus does not touch.
qiwis == <<q, queue, dialogs, results, handles, inbox, repertoire, used, sent>>

BusMessages == {"m1", "m2"}

\* Bus.write(msg).
BusWrite(msg) ==
  /\ Len(bus.written) < MaxEmits
  /\ bus' = [bus EXCEPT !.queue = Append(@, msg), !.written = Append(@, msg)]
  /\ last' = [op |-> "write", msg |-> msg, exc |-> "", before |-> bus]
  /\ UNCHANGED <<qiwis, swift>>

\* A faulty start() that makes a consumer whether or not there is one:
\* C33_OneConsumer tells it from BusStart.
BusStartAnyway ==
  /\ bus' = [bus EXCEPT !.consumer = TRUE, !.running = TRUE, !.pc = "created",
                        !.threads = @ + 1]
  /\ last' = [op |-> "start", exc |-> "", before |-> bus]
  /\ UNCHANGED <<qiwis, swift>>

\* Bus.start().
BusStart ==
  /\ IF bus.consumer
     THEN /\ UNCHANGED bus
          /\ last' = [op |-> "start", exc |-> "RuntimeError", before |-> bus]
     ELSE /\ bus' = [bus EXCEPT !.consumer = TRUE, !.running = TRUE,
                                !.pc = "created", !.threads = @ + 1]
          /\ last' = [op |-> "start", exc |-> "", before |-> bus]
  /\ UNCHANGED <<qiwis, swift>>

\* Bus.stop().
BusStop ==
  /\ IF ~bus.consumer \/ ~bus.running
     THEN /\ UNCHANGED bus
          /\ last' = [op |-> "stop", exc |-> "RuntimeError", before |-> bus]
     ELSE /\ bus' = [bus EXCEPT !.running = FALSE, !.stopped = TRUE]
          /\ last' = [op |-> "stop", exc |-> "", before |-> bus]
  /\ UNCHANGED <<qiwis, swift>>

\* The steps of QueueConsumer.run in the thread of the consumer.
ConsumerRun ==
  /\ bus.pc = "created"
  /\ bus' = [bus EXCEPT !.pc = "loop"]
  /\ last' = [op |-> "run", before |-> bus]
  /\ UNCHANGED <<qiwis, swift>>

\* while self._running: ... self.finished.emit()
ConsumerTest ==
  /\ bus.pc = "loop"
  /\ bus' = IF bus.running THEN [bus EXCEPT !.pc = "get"]
            ELSE [bus EXCEPT !.pc = "finished", !.threads = @ - 1,
                             !.events = Append(@, <<"finished">>)]
  /\ last' = [op |-> "while", before |-> bus]
  /\ UNCHANGED <<qiwis, swift>>

\* item = self._queue.get(block=True, timeout=self._timeout): the oldest
\* item, or Empty after the timeout.
ConsumerGet ==
  /\ bus.pc = "get"
  /\ bus' = IF bus.queue # <<>>
            THEN [bus EXCEPT !.pc = "got", !.item = Head(bus.queue),
                             !.queue = Tail(bus.queue)]
            ELSE [bus EXCEPT !.pc = "loop"]
  /\ last' = [op |-> "get", before |-> bus]
  /\ UNCHANGED <<qiwis, swift>>

ConsumerEmit ==
  /\ bus.pc = "got"
  /\ bus' = [bus EXCEPT !.pc = "loop", !.item = "",
                        !.events = consumed(bus.events, bus.item)]
  /\ last' = [op |-> "consumed", before |-> bus]
  /\ UNCHANGED <<qiwis, swift>>

\* A faulty clean-up that keeps the reference to the consumer:
\* C32_Termination tells it from clean_up.
clean_upKeepsConsumer(b) == [b EXCEPT !.pc = "none"]

\* Bus._clean_up, run when finished has quit and joined the thread.
clean_up(b) == [b EXCEPT !.consumer = FALSE, !.running = FALSE, !.pc = "none"]

\* The thread of the Bus takes its oldest event: received is emitted, or
\* the thread of the consumer is ended and _clean_up forgets the consumer.
BusEvent ==
  /\ bus.events # <<>>
  /\ bus' = IF Head(bus.events)[1] = "consumed"
            THEN [bus EXCEPT !.events = Tail(@),
                             !.received = Append(@, Head(bus.events)[2])]
            ELSE clean_up([bus EXCEPT !.events = Tail(@)])
  /\ last' = [op |-> "event", before |-> bus]
  /\ UNCHANGED <<qiwis, swift>>

BusInit == Init /\ Len(q.objects) = 1 /\ repertoire = BusRequests

ConsumerStep == ConsumerRun \/ ConsumerTest \/ ConsumerGet \/ ConsumerEmit

BusNext ==
  \/ \E msg \in BusMessages : BusWrite(msg)
  \/ BusStart
  \/ BusStop
  \/ ConsumerRun
  \/ ConsumerTest
  \/ ConsumerGet
  \/ ConsumerEmit
  \/ BusEvent

BusSpec == BusInit /\ [][BusNext]_vars

\* The thread of the consumer and the event loop of the thread of the Bus
\* keep running.
BusFairSpec == BusSpec /\ WF_bus(ConsumerStep) /\ WF_bus(BusEvent)

\* C28. Calling stop() again after a first stop(), before or after the
\* consumer has finished, raises nothing and changes nothing.
C28_StopAgain ==
  (/\ last.op = "stop"
   /\ last.before.stopped
   /\ ~last.before.consumer \/ ~last.before.running)
  => /\ last.exc = ""
     /\ bus = last.before

\* C29. The messages given to write() are, in the order written, those
\* received has emitted, then those on their way (posted by consumed, or
\* held by run() between get() and consumed), then those still in the
\* queue: none is lost, emitted twice or out of order, whether written
\* before start() or across stop() and start().  A message taken from the
\* queue is emitted in the end, and while a consumer runs the n-th message
\* written is emitted in the end unless the consumer is stopped.
C29_Delivery ==
  /\ [](LET IsConsumed(e) == e[1] = "consumed"
            posted == SelectSeq(bus.events, IsConsumed)
        IN bus.written =
             bus.received
             \o AsSeq([k \in DOMAIN posted |-> posted[k][2]])
             \o (IF bus.pc = "got" THEN <<bus.item>> ELSE <<>>)
             \o bus.queue)
  /\ \A n \in 1..MaxEmits :
       /\ (Len(bus.written) - Len(bus.queue) >= n) ~> (Len(bus.received) >= n)
       /\ (Len(bus.written) >= n /\ bus.consumer /\ bus.running)
            ~> (Len(bus.received) >= n \/ ~bus.running)

\* Every message written has been emitted, in the order written, by a
\* consumer started after an earlier one was stopped.
C29_Witness ==
  /\ bus.stopped /\ bus.consumer /\ bus.running
  /\ Len(bus.written) = MaxEmits
  /\ bus.received = bus.written
  /\ bus.written[1] # bus.written[2]

\* --------------------------------------------- the legacy registry runs

SwiftNames == {"app1", "app3"}
SwiftChannels == {"ch1", "ch2"}
SwiftInfos == {SwiftInfo1, SwiftInfo3}

\* A call of a method of the Swift object: op(swift) gives [s, value, exc].
SwiftCall(name, args, out) ==
  /\ swift' = out.s
  /\ last' = [op |-> name, args |-> args, value |-> out.value, exc |-> out.exc,
              before |-> swift]
  /\ UNCHANGED <<qiwis, bus>>

SwiftCreateApp(name, info) ==
  /\ Len(swift.objects) < MaxInst
  /\ SwiftCall("createApp", [name |-> name, info |-> info],
               Swift_createApp(swift, name, info))

SwiftDestroyApp(name) ==
  /\ name \in SwiftNames
  /\ SwiftCall("destroyApp", [name |-> name], Swift_destroyApp(swift, name))

SwiftSubscribe(app, channel) ==
  /\ app \in SwiftNames
  /\ SwiftCall("subscribe", [app |-> app, channel |-> channel],
               Swift_subscribe(swift, SwiftName(app), channel))

SwiftUnsubscribe(app, channel) ==
  /\ app \in SwiftNames
  /\ SwiftCall("unsubscribe", [app |-> app, channel |-> channel],
               Swift_unsubscribe(swift, SwiftName(app), channel))

SwiftSubscriberNames(channel) ==
  /\ channel \in SwiftChannels
  /\ SwiftCall("subscriberNames", [channel |-> channel],
               Swift_subscriberNames(swift, channel))

SwiftInit == Init /\ Len(q.objects) = 1 /\ repertoire = BusRequests

SwiftNext ==
  \/ \E name \in SwiftNames, info \in SwiftInfos : SwiftCreateApp(name, info)
  \/ \E name \in SwiftNames : SwiftDestroyApp(name)
  \/ \E app \in SwiftNames, channel \in SwiftChannels : SwiftSubscribe(app, channel)
  \/ \E app \in SwiftNames, channel \in SwiftChannels : SwiftUnsubscribe(app, channel)
  \/ \E channel \in SwiftChannels : SwiftSubscriberNames(channel)

SwiftSpec == SwiftInit /\ [][SwiftNext]_vars

\* C30. In swift.py the subscribers of a channel are app names: after
\* createApp(name, info) the name is a subscriber of every channel of
\* info.channel; on the Swift object as constructed, subscriberNames(channel)
\* is the set of the names of the apps whose info lists the channel and
\* unsubscribe(name, channel) returns True for such an app; after
\* destroyApp(name) of an app, neither the name nor the app is a subscriber
\* of any channel.
C30_SubscribersAreNames ==
  /\ last.op = "createApp" =>
       \A k \in DOMAIN last.args.info.channel :
         SwiftName(last.args.name)
           \in Swift_subscriberNames(swift, last.args.info.channel[k]).value
  /\ (last.op = "subscriberNames" /\ last.before = NewSwift) =>
       last.value =
         {SwiftName(NewSwift.apps[k][1]) : k \in
            {j \in DOMAIN NewSwift.apps :
               last.args.channel \in
                 Range(NewSwift.objects[NewSwift.apps[j][2][2]].info.channel)}}
  /\ (/\ last.op = "unsubscribe" /\ last.before = NewSwift
      /\ HasKey(NewSwift.apps, last.args.app)
      /\ last.args.channel \in
           Range(NewSwift.objects[Get(NewSwift.apps, last.args.app)[2]].info.channel))
     => last.value = Bool(TRUE)
  /\ (last.op = "destroyApp" /\ HasKey(last.before.apps, last.args.name)) =>
       /\ last.exc = ""
       /\ \A k \in DOMAIN swift.subscribers :
            /\ SwiftName(last.args.name) \notin swift.subscribers[k][2]
            /\ Get(last.before.apps, last.args.name) \notin swift.subscribers[k][2]

\* C31. createApp(name, info, replace=True) on a live name that raises
\* nothing leaves the name once in appNames(), bound to a new app object;
\* the name subscribes to exactly the channels of the new info; and the
\* surfaces shown are those of the new object only: none of the replaced
\* object is left.
C31_Replace ==
  (/\ last.op = "_qiwiscall" /\ last.invoked /\ last.call = "createApp"
   /\ last.exc = ""
   /\ HasKey(last.args, "replace") /\ Truthy(Get(last.args, "replace"))
   /\ HasKey(last.before.apps, PlainOf(Get(last.args, "name"))))
  => LET name == PlainOf(Get(last.args, "name"))
         info == Get(last.args, "info")
         old == Get(last.before.apps, name)
         channels == {PlainOf(c) : c \in Range(Field(info, "channel")[2])}
         frames == ClassFrames(PlainOf(Field(info, "module")),
                               PlainOf(Field(info, "cls")))
         wrappers == IF name \in DOMAIN q.wrapperWidgets
                     THEN q.wrapperWidgets[name] ELSE <<>>
     IN /\ Cardinality({i \in DOMAIN q.apps : q.apps[i][1] = name}) = 1
        /\ Get(q.apps, name) = Len(last.before.objects) + 1
        /\ {q.subscribers[i][1] : i \in {j \in DOMAIN q.subscribers :
                                           name \in q.subscribers[j][2]}} = channels
        /\ Range(wrappers) = {<<Get(q.apps, name), k>> : k \in 1..frames}
        /\ Range(wrappers) \subseteq q.widgets
        /\ \A w \in q.widgets : w[1] # old

\* C32. Once stop() has set _running of the consumer to False, run() leaves
\* its loop and emits finished, and the Bus then forgets the consumer; a
\* start() called after that raises nothing, makes a running consumer and
\* leaves the queue as it was, and what is in the queue is taken from it.
C32_Termination ==
  /\ (bus.consumer /\ ~bus.running)
       ~> (bus.pc = "finished" /\ <<"finished">> \in Range(bus.events))
  /\ (bus.pc = "finished") ~> (~bus.consumer /\ bus.pc = "none")
  /\ []((last.op = "start" /\ ~last.before.consumer) =>
          /\ last.exc = ""
          /\ bus.consumer /\ bus.running /\ bus.pc = "created"
          /\ bus.queue = last.before.queue
          /\ bus.written = last.before.written)
  /\ \A n \in 1..MaxEmits :
       (bus.stopped /\ bus.consumer /\ bus.running /\ Len(bus.written) >= n)
         ~> (Len(bus.written) - Len(bus.queue) >= n \/ ~bus.running)

\* start() has just succeeded after a consumer was stopped and forgotten,
\* with a message waiting in the queue.
C32_Witness ==
  /\ last.op = "start" /\ last.exc = ""
  /\ last.before.stopped /\ ~last.before.consumer
  /\ bus.queue # <<>>

\* C33. At most one thread runs a consumer at any time, and none when the
\* Bus has no reference to a consumer; start() called while the reference
\* is set, also after stop() and before the clean-up, raises RuntimeError
\* and changes nothing.
C33_OneConsumer ==
  /\ bus.threads <= 1
  /\ ~bus.consumer => bus.threads = 0 /\ bus.pc = "none"
  /\ (last.op = "start" /\ last.before.consumer) =>
       last.exc = "RuntimeError" /\ bus = last.before

\* start() has been refused between a stop() and the clean-up.
C33_Witness ==
  /\ last.op = "start" /\ last.exc = "RuntimeError"
  /\ last.before.consumer /\ ~last.before.running
  /\ bus.threads = 1

\* C34. Every name in the subscriber set of any channel is the name of a
\* live app, and Qiwis._broadcast never fails in the middle of its loop
\* over the subscribers.
C34_SubscribersLive ==
  /\ \A i \in DOMAIN q.subscribers : q.subscribers[i][2] \subseteq Keys(q.apps)
  /\ last.op = "_broadcast" => last.exc = ""

\* C35. A createApp that fails (the module cannot be imported, the class
\* cannot be instantiated, frames() raises) leaves the app map, the
\* subscribers of every channel and the frames as they were before the
\* call: no subscription is left for the app that was not created, and with
\* replace=True the app that was there is still live.
C35_AllOrNothing ==
  (/\ last.op = "_qiwiscall" /\ last.invoked /\ last.call = "createApp"
   /\ last.exc # "")
  => /\ q.apps = last.before.apps
     /\ \A c \in Keys(q.subscribers) \cup Keys(last.before.subscribers) :
          (IF HasKey(q.subscribers, c) THEN Get(q.subscribers, c) ELSE {})
          = (IF HasKey(last.before.subscribers, c)
             THEN Get(last.before.subscribers, c) ELSE {})
     /\ q.wrapperWidgets = last.before.wrapperWidgets
     /\ q.widgets = last.before.widgets

\* C36. createApp(name, info) on a live name without replace changes
\* nothing: the app object bound to the name, the subscribers of every
\* channel (no key is added either), the frames and the app objects made
\* so far are as before, so no class was instantiated.
C36_LiveNameIgnored ==
  (/\ last.op = "_qiwiscall" /\ last.invoked /\ last.call = "createApp"
   /\ HasKey(last.args, "name")
   /\ HasKey(last.before.apps, PlainOf(Get(last.args, "name")))
   /\ ~(HasKey(last.args, "replace") /\ Truthy(Get(last.args, "replace"))))
  => /\ q = last.before
     /\ last.frames = {}

\* A createApp without replace was invoked on a live name with an info
\* that lists a channel the name does not subscribe to.
C36_Witness ==
  /\ last.op = "_qiwiscall" /\ last.invoked /\ last.call = "createApp"
  /\ HasKey(last.before.apps, PlainOf(Get(last.args, "name")))
  /\ ~HasKey(last.args, "replace")
  /\ \E c \in Range(Field(Get(last.args, "info"), "channel")[2]) :
       \A i \in DOMAIN q.subscribers :
         q.subscribers[i][1] = PlainOf(c) =>
           PlainOf(Get(last.args, "name")) \notin q.subscribers[i][2]

\* C37. The result of a request is delivered to the app object that made
\* the request only: never to an app object that was made while the
\* request was handled (the sender replaced itself through createApp with
\* replace), whose pending requests and handles stay as they were.
C37_ResultToIssuer ==
  (last.op = "_qiwiscall" /\ last.emitted) =>
    /\ last.target <= Len(last.before.objects)
    /\ last.target > Len(last.before.objects) =>
         /\ last.resolved = 0
         /\ results[last.target] = <<>>

\* C38. While the event loop runs and the operator answers every
\* confirmation, every handle a proxy call has returned is done in the end,
\* unless an app object has been destroyed meanwhile: also for a call made
\* twice and for a call whose method returns a set.
C38_HandlesResolve ==
  \A h \in 1..MaxEmits :
    (h \in DOMAIN handles)
      ~> (\/ h \in DOMAIN handles /\ handles[h].done = Bool(TRUE)
          \/ \E i \in DOMAIN q.objects : ~Live(i))

\* C39. While a confirmation is pending no other request is handled (none
\* is asked about, none fails, none is completed but the pending one), no
\* broadcast is delivered, and the registry stays as it was when the
\* arguments were resolved until the method is invoked on it.
C39_Atomic ==
  [][dialogs # <<>> =>
       /\ last'.op # "_broadcast"
       /\ last'.op # "warning"
       /\ last'.op = "_qiwiscall" =>
            /\ last'.asked
            /\ Len(dialogs) = 1
            /\ last'.before = q
       /\ last'.op # "_qiwiscall" => q' = q]_vars

=============================================================================
